---- MODULE Spec2Model ----
(***************************************************************************)
(* zonealert-backend: the sensor routes (routes/sensor.routes.js in its   *)
(* two revisions), the livestock routes (routes/livestock.routes.js), the  *)
(* alert, analytics and farm routes and the login route (in its two        *)
(* revisions), as request handlers running concurrently against Firestore  *)
(* and the Realtime Database.  Every `await` of a handler is a point where *)
(* another request may run; the code between two awaits is one atomic      *)
(* step.  Each group of routes has its own specification over the shared   *)
(* state.                                                                  *)
(***************************************************************************)
EXTENDS Integers, Sequences, FiniteSets, TLC

\* ---------------------------------------------------------------- bounds
MaxReq == 2        \* request slots (requests in one behaviour, in flight together)
MaxBatch == 2      \* longest readings array of a POST /sensors/batch
MaxFaults == 1     \* store operations that fail in one behaviour
MaxClock == 1      \* milliseconds the clock advances

\* ------------------------------------------------------ program constants
DefaultThreshold == 50      \* `|| 50`
BatchThreshold == 50        \* `reading.distance_measured < 50`
CriticalBelow == 25         \* `distance < 25 ? 'critical' : 'high'`
LowBattery == 20            \* `battery_level < 20`
BatteryMax == 100           \* isFloat({ min: 0, max: 100 })

\* `undefined`: a field a document or a request body does not carry
Absent == 0 - 1
\* `undefined` in a string field
Undefined == "undefined"
\* process.env.IOT_API_KEY
IOT_API_KEY == "key"

Req == 1..MaxReq
Sensors == {"s1", "s2"}          \* documents of sensor_units
GhostSensor == "s9"              \* an id no sensor_units document has
SensorIds == Sensors \cup {GhostSensor}
\* the ids add() hands to newly registered sensors, in this order
FreshSensors == <<"s3", "s4", "s5">>
FreshIds == { FreshSensors[i] : i \in DOMAIN FreshSensors }
Variants == {"routes", "part_003"}   \* the two revisions of sensor.routes.js

VARIABLES
    variant,           \* which revision of sensor.routes.js is deployed
    now,               \* Date.now()
    faults,            \* store operations that have failed so far
    auto_id,           \* last id handed out by add() / push()
    sensor_units,      \* Firestore sensor_units: id -> document
    sensor_readings,   \* RTDB sensor_readings: set of rows, each with its path key
    sensor_status,     \* RTDB sensor_status: id -> node
    alerts,            \* Firestore alerts: set of documents
    notifications,     \* Firestore notifications: set of documents
    livestock,         \* Firestore livestock: set of documents
    boundary_zones,    \* Firestore boundary_zones: id -> document
    farms,             \* Firestore farms: id -> document
    Alerts,            \* Firestore Alerts (routes/alert.routes.js): set of documents
    Sensor_Units,      \* Firestore Sensor_Units: device id -> document
    FarmDocs,          \* Firestore Farms (routes/farm.routes.js): set of documents
    Farmers,           \* Firestore Farmers ('farmers' in part_005): uid -> document
    rq                 \* request slot -> the request's handler state and response

sensorStores == <<sensor_units, sensor_readings, sensor_status, alerts, notifications>>
livestockStores == <<livestock, boundary_zones, farms>>
alertStores == <<Alerts, Sensor_Units>>
\* the stores of the routes outside the sensor and the livestock routes
farmStores == <<FarmDocs, Farmers>>
otherStores == <<alertStores, farmStores>>
vars == <<variant, now, faults, auto_id, sensor_units, sensor_readings, sensor_status,
          alerts, notifications, livestock, boundary_zones, farms, otherStores, rq>>

\* ------------------------------------------------------------ JS helpers
\* JS truthiness of a number-or-undefined value: undefined and 0 are falsy
Falsy(v) == v = Absent \/ v = 0
\* `a || b`
OrElse(a, b) == IF Falsy(a) THEN b ELSE a
\* express-validator notEmpty() on a string field
NotEmpty(s) == s # ""

Idle == [kind |-> "idle", pc |-> "idle", in |-> <<>>, loc |-> <<>>,
         code |-> 0, out |-> <<>>, logged |-> "none"]

\* res.status(code).json(...): the request is over; its body and locals are gone
Respond(r, code, out, logged) ==
    rq' = [rq EXCEPT ![r] = [kind |-> rq[r].kind, pc |-> "done", in |-> <<>>,
                             loc |-> <<>>, code |-> code, out |-> out,
                             logged |-> logged]]

\* a request arrives; slots are taken in order (which slot a request gets is
\* no part of the program)
Arrive(r, kind, input) ==
    /\ rq[r].pc = "idle"
    /\ \A q \in Req : q < r => rq[q].pc # "idle"
    /\ rq' = [rq EXCEPT ![r] = [Idle EXCEPT !.kind = kind, !.pc = "handler",
                                             !.in = input]]

Goto(r, pc, loc) == rq' = [rq EXCEPT ![r].pc = pc, ![r].loc = loc]

At(r, kind, pc) == rq[r].kind = kind /\ rq[r].pc = pc

\* a store operation may fail (DependencyError): at most MaxFaults times
CanFail == faults < MaxFaults
Fail == faults' = faults + 1

\* the catch block of a route: console.error + 500
Respond500(r) == Respond(r, 500, <<>>, "handler_error")

\* ------------------------------------------------- threshold evaluation
\* new Date(ts).toISOString().split('T')[0]: the UTC calendar day of a timestamp
DayMs == 86400000
DateKey(ts) == ts \div DayMs

\* `sensorData.boundary_threshold || 50` (routes) and
\* `sensorData.max_distance_threshold || 50` (part_003)
ThresholdOf(v, doc) ==
    IF v = "routes" THEN OrElse(doc.boundary_threshold, DefaultThreshold)
                    ELSE OrElse(doc.max_distance_threshold, DefaultThreshold)

EvaluateInclusive(d, threshold) == IF d <= threshold THEN "alert" ELSE "normal"

\* `distance_measured < threshold ? 'alert' : 'normal'`
Evaluate(d, threshold) == IF d < threshold THEN "alert" ELSE "normal"

SecurityLevelInclusive(v, d) ==
    IF v = "routes" THEN (IF d <= CriticalBelow THEN "critical" ELSE "high")
                    ELSE (IF d <= CriticalBelow THEN "Critical" ELSE "High")

\* `distance < 25 ? 'critical' : 'high'` (part_003 writes 'Critical' / 'High'
\* into breach_level)
SecurityLevel(v, d) ==
    IF v = "routes" THEN (IF d < CriticalBelow THEN "critical" ELSE "high")
                    ELSE (IF d < CriticalBelow THEN "Critical" ELSE "High")

\* the batch route's `reading.distance_measured < 50 ? 'alert' : 'normal'`
BatchStatus(d) == IF d < BatchThreshold THEN "alert" ELSE "normal"

\* ------------------------------------------------------------ validators
SensorTypes(v) == IF v = "routes" THEN {"LIDAR", "ULTRASONIC"}
                                  ELSE {"LIDAR", "ULTRASONIC", "Ultrasonic"}

\* the validator chain of POST /reading
ReadingValid(v, in) ==
    /\ NotEmpty(in.sensor_id)
    /\ in.distance_measured >= 0
    /\ in.sensor_type \in SensorTypes(v)
    /\ NotEmpty(in.api_key)

\* the validator chain of POST /batch
BatchValid(in) == in.is_array /\ NotEmpty(in.api_key)

\* the validator chain of PUT /:sensorId/battery
BatteryValid(v, in) ==
    /\ IF v = "routes"
       THEN in.battery_level >= 0 /\ in.battery_level <= BatteryMax
       ELSE in.battery_level # Absent
    /\ NotEmpty(in.api_key)

\* does the handler look at validationResult(req)?  routes: only POST /reading
\* does; part_003 puts the `validate` middleware on all three routes
ChecksValidation(v, kind) == v = "part_003" \/ kind = "reading"

\* ---------------------------------------------------------------- inputs
Distances == {10, 25, 50, 55}

ReadingBody(s, d, t, k) ==
    [sensor_id |-> s, distance_measured |-> d, sensor_type |-> t, api_key |-> k]

\* request bodies of POST /reading: every sensor and distance with the other
\* fields valid, and one body per way of breaking a field
ReadingInputs ==
    { ReadingBody(s, d, "LIDAR", IOT_API_KEY) : s \in SensorIds, d \in Distances }
    \cup { ReadingBody("s1", 0 - 1, "LIDAR", IOT_API_KEY),
           ReadingBody("", 10, "LIDAR", IOT_API_KEY),
           ReadingBody("s1", 10, "BAD", IOT_API_KEY),
           ReadingBody("s1", 10, "Ultrasonic", IOT_API_KEY),
           ReadingBody("s1", 10, "LIDAR", ""),
           ReadingBody("s1", 10, "LIDAR", "wrong") }

BatchItem(s, d) ==
    [sensor_id |-> s, distance_measured |-> d, sensor_type |-> "LIDAR", timestamp |-> 0]

BatchItems == { BatchItem("s1", 10), BatchItem("s2", 55), BatchItem("s1", 0 - 1) }

RECURSIVE SeqsUpTo(_, _)
SeqsUpTo(S, n) ==
    IF n = 0 THEN { <<>> }
    ELSE LET shorter == SeqsUpTo(S, n - 1)
         IN  shorter \cup { Append(q, x) : q \in shorter, x \in S }

BatchBody(a, rs, k) == [is_array |-> a, readings |-> rs, api_key |-> k]

\* request bodies of POST /batch: `readings` an array of up to MaxBatch items, or
\* not an array at all
BatchInputs ==
    { BatchBody(TRUE, rs, IOT_API_KEY) : rs \in SeqsUpTo(BatchItems, MaxBatch) }
    \cup { BatchBody(FALSE, <<>>, IOT_API_KEY),
           BatchBody(TRUE, <<BatchItem("s1", 10)>>, ""),
           BatchBody(TRUE, <<BatchItem("s1", 10)>>, "wrong") }

BatteryBody(s, b, k) == [sensorId |-> s, battery_level |-> b, api_key |-> k]

BatteryInputs ==
    { BatteryBody(s, b, IOT_API_KEY) : s \in {"s1", GhostSensor}, b \in {10, 50, 150} }
    \cup { BatteryBody("s1", Absent, IOT_API_KEY),
           BatteryBody("s1", 50, ""),
           BatteryBody("s1", 50, "wrong") }

\* ----------------------------------------------------------------- Init
\* a sensor_units document as POST /register writes it; the configured threshold
\* sits in the field the deployed revision reads
SensorDoc(v, t) ==
    [zone_id |-> "Z1", farm_id |-> "F1",
     boundary_threshold |-> IF v = "routes" THEN t ELSE Absent,
     max_distance_threshold |-> IF v = "routes" THEN Absent ELSE t,
     last_reading |-> Absent, battery_level |-> 100, total_readings_today |-> 0]

\* the sensor_status node POST /register writes
RegisteredStatus ==
    [present |-> TRUE, last_reading |-> 0, last_timestamp |-> 0,
     status |-> "inactive", is_online |-> FALSE, battery_level |-> Absent]

\* no node at the path
NoStatus ==
    [present |-> FALSE, last_reading |-> Absent, last_timestamp |-> Absent,
     status |-> "undefined", is_online |-> FALSE, battery_level |-> Absent]

Zones == {"Z1", "Z2"}
Farms == {"F1", "F2"}
Devices == {"d1"}                \* documents of Sensor_Units
GhostDevice == "d9"              \* an id no Sensor_Units document has
FarmerIds == {"u1", "u2"}        \* documents of Farmers

\* a Farms document (the fields the farm routes read)
FarmDoc(id, farmer_id, farm_name) ==
    [id |-> id, farmer_id |-> farmer_id, farm_name |-> farm_name]

\* a Farmers document as POST /auth/register writes it
FarmerDoc(email, farms_count) ==
    [email |-> email, farms_count |-> farms_count, last_login |-> 0]

\* one farm, of farmer u1, and counters that agree with it
InitialFarm == FarmDoc(1, "u1", "n1")
InitialFarmers ==
    [u \in FarmerIds |-> IF u = "u1" THEN FarmerDoc("a@x.io", 1) ELSE FarmerDoc("b@x.io", 0)]

\* a livestock document (the fields the routes below read or validate)
Row(id, farm, zone, name, tag, health, weight) ==
    [id |-> id, farm_id |-> farm, zone_id |-> zone, zone_name |-> name,
     identification_tag |-> tag, health_status |-> health, weight_kg |-> weight]

\* the stores hold one livestock row, of farm F1 and zone Z1, and counters that
\* agree with it
InitialRow == Row(1, "F1", "Z1", "Z1", "t1", "healthy", Absent)
InitialZones ==
    [z \in Zones |-> [zone_name |-> z,
                      current_livestock_count |-> IF z = "Z1" THEN 1 ELSE 0]]
\* (`active_alerts: 0` is what POST /farms writes, and no alert exists yet)
InitialFarms ==
    [f \in Farms |-> [livestock_count |-> IF f = "F1" THEN 1 ELSE 0,
                      active_alerts |-> 0]]

\* the state after construction, but for the clock, the id counter and the Alerts
\* collection
InitRest ==
    /\ variant \in Variants
    /\ faults = 0
    /\ sensor_units = [s \in Sensors |->
                         SensorDoc(variant, IF s = "s1" THEN Absent ELSE 60)]
    /\ sensor_readings = {}
    /\ sensor_status = [s \in SensorIds \cup FreshIds |->
                          IF s \in Sensors THEN RegisteredStatus ELSE NoStatus]
    /\ alerts = {}
    /\ notifications = {}
    /\ livestock = { InitialRow }
    /\ boundary_zones = InitialZones
    /\ farms = InitialFarms
    /\ Sensor_Units = [d \in Devices |-> [alerts_count |-> 0, last_seen |-> 0]]
    /\ FarmDocs = { InitialFarm }
    /\ Farmers = InitialFarmers
    /\ rq = [r \in Req |-> Idle]

Init ==
    /\ InitRest
    /\ now = 0
    /\ auto_id = 1
    /\ Alerts = {}

\* Date.now() moves on
Tick ==
    /\ now < MaxClock
    /\ now' = now + 1
    /\ UNCHANGED <<variant, faults, auto_id, sensorStores, livestockStores,
                   otherStores, rq>>

\* a step of a sensor route leaves these alone unless it says otherwise
SensorFrame == UNCHANGED <<variant, now, livestockStores, otherStores>>

\* ------------------------------------------------- POST /sensors/reading
ReadingArrive(r) ==
    /\ \E in \in ReadingInputs : Arrive(r, "reading", in)
    /\ SensorFrame
    /\ UNCHANGED <<faults, auto_id, sensorStores>>

\* validationResult(req), then the API key
ReadingHandler(r) ==
    /\ At(r, "reading", "handler")
    /\ LET in == rq[r].in IN
       IF ~ReadingValid(variant, in) THEN Respond(r, 400, <<>>, "none")
       ELSE IF in.api_key # IOT_API_KEY THEN Respond(r, 401, <<>>, "none")
       ELSE Goto(r, "get_sensor", <<>>)
    /\ SensorFrame
    /\ UNCHANGED <<faults, auto_id, sensorStores>>

\* sensor_units.doc(sensor_id).get(), the threshold, the status, the timestamp and
\* the push() key
ReadingGetSensor(r) ==
    /\ At(r, "reading", "get_sensor")
    /\ LET in == rq[r].in IN
       \/ /\ CanFail /\ Fail
          /\ Respond500(r)
          /\ UNCHANGED auto_id
       \/ /\ in.sensor_id \notin DOMAIN sensor_units
          /\ Respond(r, 404, <<>>, "none")
          /\ UNCHANGED <<faults, auto_id>>
       \/ /\ in.sensor_id \in DOMAIN sensor_units
          /\ LET sensorData == sensor_units[in.sensor_id]
                 threshold == ThresholdOf(variant, sensorData)
             IN  Goto(r, "set_reading",
                      [sensorData |-> sensorData,
                       threshold |-> threshold,
                       status |-> Evaluate(in.distance_measured, threshold),
                       timestamp |-> now,
                       readingRef |-> [date |-> DateKey(now), sensor |-> in.sensor_id,
                                       kind |-> "push", n |-> auto_id + 1]])
          /\ auto_id' = auto_id + 1
          /\ UNCHANGED faults
    /\ SensorFrame
    /\ UNCHANGED sensorStores

\* readingRef.set(readingData)
ReadingSet(r) ==
    /\ At(r, "reading", "set_reading")
    /\ LET in == rq[r].in
           loc == rq[r].loc
       IN
       \/ /\ CanFail /\ Fail
          /\ Respond500(r)
          /\ UNCHANGED sensor_readings
       \/ /\ sensor_readings' =
                { x \in sensor_readings : x.key # loc.readingRef }
                \cup { [key |-> loc.readingRef,
                        sensor_id |-> in.sensor_id,
                        distance_measured |-> in.distance_measured,
                        sensor_type |-> in.sensor_type,
                        status |-> loc.status,
                        timestamp |-> loc.timestamp,
                        zone_id |-> loc.sensorData.zone_id,
                        farm_id |-> loc.sensorData.farm_id] }
          /\ Goto(r, "set_status", loc)
          /\ UNCHANGED faults
    /\ SensorFrame
    /\ UNCHANGED <<auto_id, sensor_units, sensor_status, alerts, notifications>>

LiveStatusMerged(old, distance, timestamp, status) ==
    [old EXCEPT !.present = TRUE, !.last_reading = distance,
                !.last_timestamp = timestamp, !.status = status, !.is_online = TRUE]

\* the node `.set({last_reading, last_timestamp, status, is_online: true})` leaves at
\* the path: set() replaces whatever was there, so a field it does not name is gone
LiveStatus(old, distance, timestamp, status) ==
    [present |-> TRUE, last_reading |-> distance, last_timestamp |-> timestamp,
     status |-> status, is_online |-> TRUE, battery_level |-> Absent]

\* realtimeDb.ref(`sensor_status/${sensor_id}`).set({...})
ReadingSetStatus(r) ==
    /\ At(r, "reading", "set_status")
    /\ LET in == rq[r].in
           loc == rq[r].loc
       IN
       \/ /\ CanFail /\ Fail
          /\ Respond500(r)
          /\ UNCHANGED sensor_status
       \/ /\ sensor_status' =
                [sensor_status EXCEPT ![in.sensor_id] =
                    LiveStatus(@, in.distance_measured, loc.timestamp, loc.status)]
          /\ Goto(r, "update_sensor", loc)
          /\ UNCHANGED faults
    /\ SensorFrame
    /\ UNCHANGED <<auto_id, sensor_units, sensor_readings, alerts, notifications>>

\* the body of the 200 response of POST /reading
ReadingOut(v, in, loc) ==
    IF v = "routes"
    THEN [reading_id |-> loc.readingRef, status |-> loc.status,
          timestamp |-> loc.timestamp]
    ELSE [reading_id |-> loc.readingRef, status |-> loc.status,
          timestamp |-> loc.timestamp,
          distance_measured |-> in.distance_measured, threshold |-> loc.threshold]

NeedsAlertAlways(status) == TRUE

\* `if (status === 'alert')` in front of createAlert
NeedsAlert(status) == status = "alert"

\* sensor_units.doc(sensor_id).update({...}); a 'normal' reading is answered here
ReadingUpdateSensor(r) ==
    /\ At(r, "reading", "update_sensor")
    /\ LET in == rq[r].in
           loc == rq[r].loc
       IN
       \/ /\ CanFail /\ Fail
          /\ Respond500(r)
          /\ UNCHANGED sensor_units
       \/ /\ sensor_units' =
                [sensor_units EXCEPT ![in.sensor_id] =
                    [@ EXCEPT !.last_reading = in.distance_measured,
                              !.total_readings_today =
                                  IF variant = "routes" THEN @ + 1 ELSE @]]
          /\ IF NeedsAlert(loc.status)
             THEN Goto(r, "add_alert", loc)
             ELSE Respond(r, 200, ReadingOut(variant, in, loc), "none")
          /\ UNCHANGED faults
    /\ SensorFrame
    /\ UNCHANGED <<auto_id, sensor_readings, sensor_status, alerts, notifications>>

\* createAlert's alertData (part_003 names the last two fields breach_level and
\* breach_distance, and the type 'Boundary Breach')
AlertData(v, id, sensor_id, sensorData, distance) ==
    [id |-> id,
     sensor_id |-> sensor_id,
     zone_id |-> sensorData.zone_id,
     farm_id |-> sensorData.farm_id,
     alert_type |-> IF v = "routes" THEN "boundary_breach" ELSE "Boundary Breach",
     security_level |-> SecurityLevel(v, distance),
     trigger_distance |-> distance,
     is_resolved |-> FALSE]

AddAlertDeduplicated(existing, doc) ==
    IF \E a \in existing : a.sensor_id = doc.sensor_id /\ ~a.is_resolved
    THEN existing
    ELSE existing \cup {doc}

\* collection('alerts').add(doc): always a new document
AddAlert(existing, doc) == existing \cup {doc}

CreateAlertFailedThrows(r, out) == Respond500(r)

\* createAlert's catch block: console.error, nothing is rethrown, and the handler
\* goes on to res.status(200)
CreateAlertFailed(r, out) == Respond(r, 200, out, "alert_error")

\* createAlert, first await: alerts.add(alertData).  A failure is caught inside
\* createAlert (console.error) and the handler goes on to its 200 response; part_003
\* has no notification and answers after the alert
ReadingAddAlert(r) ==
    /\ At(r, "reading", "add_alert")
    /\ LET in == rq[r].in
           loc == rq[r].loc
       IN
       \/ /\ CanFail /\ Fail
          /\ CreateAlertFailed(r, ReadingOut(variant, in, loc))
          /\ UNCHANGED <<alerts, auto_id>>
       \/ /\ alerts' = AddAlert(alerts,
                                  AlertData(variant, auto_id + 1, in.sensor_id,
                                            loc.sensorData, in.distance_measured))
          /\ auto_id' = auto_id + 1
          /\ IF variant = "routes"
             THEN Goto(r, "add_notification", loc @@ [alertRef |-> auto_id + 1])
             ELSE Respond(r, 200, ReadingOut(variant, in, loc), "none")
          /\ UNCHANGED faults
    /\ SensorFrame
    /\ UNCHANGED <<sensor_units, sensor_readings, sensor_status, notifications>>

\* createAlert, second await (routes only): notifications.add({alert_id, ...});
\* sensorData.farmer_id is undefined and dropped (ignoreUndefinedProperties)
ReadingAddNotification(r) ==
    /\ At(r, "reading", "add_notification")
    /\ LET in == rq[r].in
           loc == rq[r].loc
       IN
       \/ /\ CanFail /\ Fail
          /\ CreateAlertFailed(r, ReadingOut(variant, in, loc))
          /\ UNCHANGED <<notifications, auto_id>>
       \/ /\ notifications' = notifications \cup
                { [id |-> auto_id + 1, alert_id |-> loc.alertRef,
                   is_read |-> FALSE, delivery_status |-> "pending"] }
          /\ auto_id' = auto_id + 1
          /\ Respond(r, 200, ReadingOut(variant, in, loc), "none")
          /\ UNCHANGED faults
    /\ SensorFrame
    /\ UNCHANGED <<sensor_units, sensor_readings, sensor_status, alerts>>

Reading(r) ==
    \/ ReadingArrive(r)
    \/ ReadingHandler(r)
    \/ ReadingGetSensor(r)
    \/ ReadingSet(r)
    \/ ReadingSetStatus(r)
    \/ ReadingUpdateSensor(r)
    \/ ReadingAddAlert(r)
    \/ ReadingAddNotification(r)

\* --------------------------------------------------- POST /sensors/batch
BatchArrive(r) ==
    /\ \E in \in BatchInputs : Arrive(r, "batch", in)
    /\ SensorFrame
    /\ UNCHANGED <<faults, auto_id, sensorStores>>

\* the row the loop builds for one item, at its path
\* `sensor_readings/${dateKey}/${reading.sensor_id}/${Date.now()}`
BatchRow(reading, t) ==
    [key |-> [date |-> DateKey(reading.timestamp), sensor |-> reading.sensor_id,
              kind |-> "ms", n |-> t],
     sensor_id |-> reading.sensor_id,
     distance_measured |-> reading.distance_measured,
     sensor_type |-> reading.sensor_type,
     status |-> BatchStatus(reading.distance_measured),
     timestamp |-> reading.timestamp,
     zone_id |-> Undefined,
     farm_id |-> Undefined]

\* the `updates` object after the loop: a later item with the same path replaces
\* an earlier one
BatchUpdates(readings, t) ==
    { BatchRow(readings[i], t) : i \in
        { i \in 1..Len(readings) :
            \A j \in (i + 1)..Len(readings) :
                BatchRow(readings[j], t).key # BatchRow(readings[i], t).key } }

\* the validate middleware (part_003 only), the API key, and the loop; `for ... of`
\* over a body without a readings array throws
BatchHandler(r) ==
    /\ At(r, "batch", "handler")
    /\ LET in == rq[r].in IN
       IF ChecksValidation(variant, "batch") /\ ~BatchValid(in)
       THEN Respond(r, 400, <<>>, "none")
       ELSE IF in.api_key # IOT_API_KEY THEN Respond(r, 401, <<>>, "none")
       ELSE IF ~in.is_array THEN Respond500(r)
       ELSE Goto(r, "update", [updates |-> BatchUpdates(in.readings, now)])
    /\ SensorFrame
    /\ UNCHANGED <<faults, auto_id, sensorStores>>

\* realtimeDb.ref().update(updates): every path of `updates` is set
BatchUpdate(r) ==
    /\ At(r, "batch", "update")
    /\ LET in == rq[r].in
           updates == rq[r].loc.updates
       IN
       \/ /\ CanFail /\ Fail
          /\ Respond500(r)
          /\ UNCHANGED sensor_readings
       \/ /\ sensor_readings' =
                { x \in sensor_readings : \A u \in updates : u.key # x.key }
                \cup updates
          /\ Respond(r, 200, [count |-> Len(in.readings)], "none")
          /\ UNCHANGED faults
    /\ SensorFrame
    /\ UNCHANGED <<auto_id, sensor_units, sensor_status, alerts, notifications>>

Batch(r) == BatchArrive(r) \/ BatchHandler(r) \/ BatchUpdate(r)

\* ------------------------------------------ PUT /sensors/:sensorId/battery
BatteryArrive(r) ==
    /\ \E in \in BatteryInputs : Arrive(r, "battery", in)
    /\ SensorFrame
    /\ UNCHANGED <<faults, auto_id, sensorStores>>

\* the validate middleware (part_003 only) and the API key
BatteryHandler(r) ==
    /\ At(r, "battery", "handler")
    /\ LET in == rq[r].in IN
       IF ChecksValidation(variant, "battery") /\ ~BatteryValid(variant, in)
       THEN Respond(r, 400, <<>>, "none")
       ELSE IF in.api_key # IOT_API_KEY THEN Respond(r, 401, <<>>, "none")
       ELSE Goto(r, "update_sensor", <<>>)
    /\ SensorFrame
    /\ UNCHANGED <<faults, auto_id, sensorStores>>

\* sensor_units.doc(sensorId).update({battery_level, ...}): throws when the
\* document does not exist; an undefined battery_level is left out of the write
BatteryUpdateSensor(r) ==
    /\ At(r, "battery", "update_sensor")
    /\ LET in == rq[r].in IN
       \/ /\ CanFail /\ Fail
          /\ Respond500(r)
          /\ UNCHANGED sensor_units
       \/ /\ in.sensorId \notin DOMAIN sensor_units
          /\ Respond500(r)
          /\ UNCHANGED <<sensor_units, faults>>
       \/ /\ in.sensorId \in DOMAIN sensor_units
          /\ sensor_units' =
                [sensor_units EXCEPT ![in.sensorId].battery_level =
                    IF in.battery_level = Absent THEN @ ELSE in.battery_level]
          /\ Goto(r, "set_status", <<>>)
          /\ UNCHANGED faults
    /\ SensorFrame
    /\ UNCHANGED <<auto_id, sensor_readings, sensor_status, alerts, notifications>>

\* sensor_status/${sensorId}/battery_level .set(battery_level): set(undefined)
\* throws; then `battery_level < 20` decides on the low-battery alert (routes only)
BatterySetStatus(r) ==
    /\ At(r, "battery", "set_status")
    /\ LET in == rq[r].in IN
       \/ /\ CanFail /\ Fail
          /\ Respond500(r)
          /\ UNCHANGED sensor_status
       \/ /\ in.battery_level = Absent
          /\ Respond500(r)
          /\ UNCHANGED <<sensor_status, faults>>
       \/ /\ in.battery_level # Absent
          /\ sensor_status' =
                [sensor_status EXCEPT ![in.sensorId].battery_level = in.battery_level]
          /\ IF variant = "routes" /\ in.battery_level < LowBattery
             THEN Goto(r, "low_battery_alert", <<>>)
             ELSE Respond(r, 200, [battery_level |-> in.battery_level], "none")
          /\ UNCHANGED faults
    /\ SensorFrame
    /\ UNCHANGED <<auto_id, sensor_units, sensor_readings, alerts, notifications>>

\* createLowBatteryAlert: alerts.add({...}); a failure is caught and logged
BatteryLowAlert(r) ==
    /\ At(r, "battery", "low_battery_alert")
    /\ LET in == rq[r].in IN
       \/ /\ CanFail /\ Fail
          /\ Respond(r, 200, [battery_level |-> in.battery_level], "alert_error")
          /\ UNCHANGED <<alerts, auto_id>>
       \/ /\ alerts' = AddAlert(alerts,
                [id |-> auto_id + 1, sensor_id |-> in.sensorId,
                 zone_id |-> Undefined, farm_id |-> Undefined,
                 alert_type |-> "low_battery", security_level |-> "medium",
                 trigger_distance |-> Absent, is_resolved |-> FALSE])
          /\ auto_id' = auto_id + 1
          /\ Respond(r, 200, [battery_level |-> in.battery_level], "none")
          /\ UNCHANGED faults
    /\ SensorFrame
    /\ UNCHANGED <<sensor_units, sensor_readings, sensor_status, notifications>>

Battery(r) ==
    \/ BatteryArrive(r)
    \/ BatteryHandler(r)
    \/ BatteryUpdateSensor(r)
    \/ BatterySetStatus(r)
    \/ BatteryLowAlert(r)

NextSensor == Tick \/ \E r \in Req : Reading(r) \/ Batch(r) \/ Battery(r)

SensorSpec == Init /\ [][NextSensor]_vars

\* ------------------------------------------ GET /sensors/live/:sensorId
StaleAfter == 300000        \* `> 300000`

\* the instants at which the clock is looked at in the runs of this route
Instants == {0, 1, StaleAfter - 1, StaleAfter, StaleAfter + 1}

\* Date.now() moves on, to a later instant
Elapse ==
    /\ \E t \in Instants : t > now /\ now' = t
    /\ UNCHANGED <<variant, faults, auto_id, sensorStores, livestockStores,
                   otherStores, rq>>

IsStaleInclusive(t, last_timestamp) == t - last_timestamp >= StaleAfter

\* `Date.now() - liveData.last_timestamp > 300000`
IsStale(t, last_timestamp) == t - last_timestamp > StaleAfter

\* `Math.floor((Date.now() - liveData.last_timestamp) / 1000)`
AgeSeconds(t, last_timestamp) == (t - last_timestamp) \div 1000

LiveInputs == { [sensorId |-> s] : s \in SensorIds }

\* the request has passed verifyToken
LiveArrive(r) ==
    /\ \E in \in LiveInputs : Arrive(r, "live", in)
    /\ SensorFrame
    /\ UNCHANGED <<faults, auto_id, sensorStores>>

\* realtimeDb.ref(`sensor_status/${sensorId}`).once('value')
LiveHandler(r) ==
    /\ At(r, "live", "handler")
    /\ \/ /\ CanFail /\ Fail
          /\ Respond500(r)
       \/ /\ UNCHANGED faults
          /\ Goto(r, "respond", [statusSnapshot |-> sensor_status[rq[r].in.sensorId]])
    /\ SensorFrame
    /\ UNCHANGED <<auto_id, sensorStores>>

\* `if (!statusSnapshot.exists())` 404; else the staleness and the age at the time
\* the snapshot is looked at, and 200
LiveRespond(r) ==
    /\ At(r, "live", "respond")
    /\ LET liveData == rq[r].loc.statusSnapshot IN
       IF ~liveData.present
       THEN Respond(r, 404, <<>>, "none")
       ELSE Respond(r, 200,
                    [last_reading |-> liveData.last_reading,
                     last_timestamp |-> liveData.last_timestamp,
                     status |-> liveData.status,
                     is_online |-> liveData.is_online,
                     is_stale |-> IsStale(now, liveData.last_timestamp),
                     age_seconds |-> AgeSeconds(now, liveData.last_timestamp)],
                    "none")
    /\ SensorFrame
    /\ UNCHANGED <<faults, auto_id, sensorStores>>

Live(r) == LiveArrive(r) \/ LiveHandler(r) \/ LiveRespond(r)

NextLive == Elapse \/ \E r \in Req : Live(r)

LiveSpec == Init /\ [][NextLive]_vars

\* ======================================================= livestock routes
LivestockFrame == UNCHANGED <<variant, now, sensorStores, otherStores>>

GhostZone == "Z9"      \* ids no document has
GhostFarm == "F9"
GhostRow == 99
AnimalTypes == {"Goat", "Chicken", "Cow", "Sheep", "Pig"}
HealthStatuses == {"healthy", "sick", "injured", "quarantine"}

CreateBody(z, f, a, t, h, w) ==
    [zone_id |-> z, farm_id |-> f, animal_type |-> a, identification_tag |-> t,
     health_status |-> h, weight_kg |-> w]

\* the validator chain of POST /livestock
CreateValid(in) ==
    /\ NotEmpty(in.zone_id)
    /\ NotEmpty(in.farm_id)
    /\ in.animal_type \in AnimalTypes
    /\ NotEmpty(in.identification_tag)
    /\ in.weight_kg = Absent \/ in.weight_kg >= 0
    /\ in.health_status = Undefined \/ in.health_status \in HealthStatuses

CreateInputs ==
    { CreateBody(z, f, "Goat", t, Undefined, Absent) :
        z \in {"Z1", "Z2", GhostZone}, f \in {"F1", GhostFarm}, t \in {"t1", "t2"} }
    \cup { CreateBody("", "F1", "Goat", "t2", Undefined, Absent),
           CreateBody("Z1", "", "Goat", "t2", Undefined, Absent),
           CreateBody("Z1", "F1", "Dragon", "t2", Undefined, Absent),
           CreateBody("Z1", "F1", "Goat", "", Undefined, Absent),
           CreateBody("Z1", "F1", "Goat", "t2", "bogus", Absent),
           CreateBody("Z1", "F1", "Goat", "t2", "sick", 0 - 5) }

\* ------------------------------------------------------- POST /livestock
CreateArrive(r) ==
    /\ \E in \in CreateInputs : Arrive(r, "create", in)
    /\ LivestockFrame
    /\ UNCHANGED <<faults, auto_id, livestockStores>>

\* validationResult(req)
CreateHandler(r) ==
    /\ At(r, "create", "handler")
    /\ IF ~CreateValid(rq[r].in) THEN Respond(r, 400, <<>>, "none")
                               ELSE Goto(r, "check_tag", <<>>)
    /\ LivestockFrame
    /\ UNCHANGED <<faults, auto_id, livestockStores>>

\* the query for the identification tag within the farm
CreateCheckTag(r) ==
    /\ At(r, "create", "check_tag")
    /\ LET in == rq[r].in IN
       \/ /\ CanFail /\ Fail
          /\ Respond500(r)
       \/ /\ UNCHANGED faults
          /\ IF \E l \in livestock : /\ l.identification_tag = in.identification_tag
                                     /\ l.farm_id = in.farm_id
             THEN Respond(r, 409, <<>>, "none")
             ELSE Goto(r, "get_zone", <<>>)
    /\ LivestockFrame
    /\ UNCHANGED <<auto_id, livestockStores>>

\* boundary_zones.doc(zone_id).get()
CreateGetZone(r) ==
    /\ At(r, "create", "get_zone")
    /\ LET in == rq[r].in IN
       \/ /\ CanFail /\ Fail
          /\ Respond500(r)
       \/ /\ UNCHANGED faults
          /\ IF in.zone_id \notin DOMAIN boundary_zones
             THEN Respond(r, 404, <<>>, "none")
             ELSE Goto(r, "add", [zoneData |-> boundary_zones[in.zone_id]])
    /\ LivestockFrame
    /\ UNCHANGED <<auto_id, livestockStores>>

\* livestock.add(livestockData)
CreateAdd(r) ==
    /\ At(r, "create", "add")
    /\ LET in == rq[r].in
           loc == rq[r].loc
       IN
       \/ /\ CanFail /\ Fail
          /\ Respond500(r)
          /\ UNCHANGED <<livestock, auto_id>>
       \/ /\ livestock' = livestock \cup
                { Row(auto_id + 1, in.farm_id, in.zone_id, loc.zoneData.zone_name,
                      in.identification_tag,
                      IF in.health_status = Undefined THEN "healthy"
                                                      ELSE in.health_status,
                      IF Falsy(in.weight_kg) THEN Absent ELSE in.weight_kg) }
          /\ auto_id' = auto_id + 1
          /\ Goto(r, "inc_zone", [livestockRef |-> auto_id + 1])
          /\ UNCHANGED faults
    /\ LivestockFrame
    /\ UNCHANGED <<boundary_zones, farms>>

\* DocumentReference.update({field: FieldValue.increment(by)}): throws NOT_FOUND
\* when the document does not exist
Increment(coll, id, field, by) == [coll EXCEPT ![id][field] = @ + by]

\* boundary_zones.doc(zone_id).update({current_livestock_count: increment(1)})
CreateIncZone(r) ==
    /\ At(r, "create", "inc_zone")
    /\ LET in == rq[r].in IN
       \/ /\ CanFail /\ Fail
          /\ Respond500(r)
          /\ UNCHANGED boundary_zones
       \/ /\ in.zone_id \notin DOMAIN boundary_zones
          /\ Respond500(r)
          /\ UNCHANGED <<boundary_zones, faults>>
       \/ /\ in.zone_id \in DOMAIN boundary_zones
          /\ boundary_zones' =
                Increment(boundary_zones, in.zone_id, "current_livestock_count", 1)
          /\ Goto(r, "inc_farm", rq[r].loc)
          /\ UNCHANGED faults
    /\ LivestockFrame
    /\ UNCHANGED <<auto_id, livestock, farms>>

\* farms.doc(farm_id).update({livestock_count: increment(1)}), then 201
CreateIncFarm(r) ==
    /\ At(r, "create", "inc_farm")
    /\ LET in == rq[r].in IN
       \/ /\ CanFail /\ Fail
          /\ Respond500(r)
          /\ UNCHANGED farms
       \/ /\ in.farm_id \notin DOMAIN farms
          /\ Respond500(r)
          /\ UNCHANGED <<farms, faults>>
       \/ /\ in.farm_id \in DOMAIN farms
          /\ farms' = Increment(farms, in.farm_id, "livestock_count", 1)
          /\ Respond(r, 201, [livestock_id |-> rq[r].loc.livestockRef], "none")
          /\ UNCHANGED faults
    /\ LivestockFrame
    /\ UNCHANGED <<auto_id, livestock, boundary_zones>>

Create(r) ==
    \/ CreateArrive(r)
    \/ CreateHandler(r)
    \/ CreateCheckTag(r)
    \/ CreateGetZone(r)
    \/ CreateAdd(r)
    \/ CreateIncZone(r)
    \/ CreateIncFarm(r)

\* ------------------------------------------------ PUT /livestock/:livestockId
PutBody(id, z, f, t, h, w) ==
    [livestockId |-> id, zone_id |-> z, farm_id |-> f, identification_tag |-> t,
     health_status |-> h, weight_kg |-> w]

\* the validator chain of PUT /:livestockId (zone_id and notes are optional())
PutValid(in) ==
    /\ in.health_status = Undefined \/ in.health_status \in HealthStatuses
    /\ in.weight_kg = Absent \/ in.weight_kg >= 0

\* request bodies of PUT: one field each; any field of the body reaches the
\* document (`updateData = { ...req.body }`)
PutInputs ==
    { PutBody(id, z, Undefined, Undefined, Undefined, Absent) :
        id \in {1, 2, GhostRow}, z \in {"Z2", GhostZone} }
    \cup { PutBody(1, "Z1", Undefined, Undefined, Undefined, Absent),
           PutBody(1, Undefined, "F2", Undefined, Undefined, Absent),
           PutBody(1, Undefined, Undefined, "t2", Undefined, Absent),
           PutBody(1, Undefined, Undefined, Undefined, "sick", Absent),
           PutBody(1, Undefined, Undefined, Undefined, "bogus", Absent),
           PutBody(1, Undefined, Undefined, Undefined, Undefined, 0 - 5),
           PutBody(GhostRow, Undefined, Undefined, Undefined, "sick", Absent) }

PutArrive(r) ==
    /\ \E in \in PutInputs : Arrive(r, "put", in)
    /\ LivestockFrame
    /\ UNCHANGED <<faults, auto_id, livestockStores>>

\* updateData is built (validationResult is never consulted);
\* `if (updateData.zone_id)`
PutHandler(r) ==
    /\ At(r, "put", "handler")
    /\ IF rq[r].in.zone_id \notin {Undefined, ""}
       THEN Goto(r, "get_livestock", [zone_name |-> Undefined])
       ELSE Goto(r, "update", [zone_name |-> Undefined])
    /\ LivestockFrame
    /\ UNCHANGED <<faults, auto_id, livestockStores>>

\* livestock.doc(livestockId).get(); `if (livestockDoc.exists)`
PutGetLivestock(r) ==
    /\ At(r, "put", "get_livestock")
    /\ LET in == rq[r].in IN
       \/ /\ CanFail /\ Fail
          /\ Respond500(r)
       \/ /\ UNCHANGED faults
          /\ IF \E l \in livestock : l.id = in.livestockId
             THEN LET l == CHOOSE l \in livestock : l.id = in.livestockId
                  IN  Goto(r, "dec_old", [zone_name |-> Undefined,
                                          oldZoneId |-> l.zone_id])
             ELSE Goto(r, "update", rq[r].loc)
    /\ LivestockFrame
    /\ UNCHANGED <<auto_id, livestockStores>>

\* boundary_zones.doc(oldZoneId).update({current_livestock_count: increment(-1)})
PutDecOld(r) ==
    /\ At(r, "put", "dec_old")
    /\ LET loc == rq[r].loc IN
       \/ /\ CanFail /\ Fail
          /\ Respond500(r)
          /\ UNCHANGED boundary_zones
       \/ /\ loc.oldZoneId \notin DOMAIN boundary_zones
          /\ Respond500(r)
          /\ UNCHANGED <<boundary_zones, faults>>
       \/ /\ loc.oldZoneId \in DOMAIN boundary_zones
          /\ boundary_zones' =
                Increment(boundary_zones, loc.oldZoneId, "current_livestock_count", 0 - 1)
          /\ Goto(r, "inc_new", loc)
          /\ UNCHANGED faults
    /\ LivestockFrame
    /\ UNCHANGED <<auto_id, livestock, farms>>

\* boundary_zones.doc(updateData.zone_id).update({...: increment(1)})
PutIncNew(r) ==
    /\ At(r, "put", "inc_new")
    /\ LET in == rq[r].in IN
       \/ /\ CanFail /\ Fail
          /\ Respond500(r)
          /\ UNCHANGED boundary_zones
       \/ /\ in.zone_id \notin DOMAIN boundary_zones
          /\ Respond500(r)
          /\ UNCHANGED <<boundary_zones, faults>>
       \/ /\ in.zone_id \in DOMAIN boundary_zones
          /\ boundary_zones' =
                Increment(boundary_zones, in.zone_id, "current_livestock_count", 1)
          /\ Goto(r, "get_new_zone", rq[r].loc)
          /\ UNCHANGED faults
    /\ LivestockFrame
    /\ UNCHANGED <<auto_id, livestock, farms>>

\* boundary_zones.doc(updateData.zone_id).get() for the denormalised zone name
PutGetNewZone(r) ==
    /\ At(r, "put", "get_new_zone")
    /\ LET in == rq[r].in IN
       \/ /\ CanFail /\ Fail
          /\ Respond500(r)
       \/ /\ UNCHANGED faults
          /\ IF in.zone_id \in DOMAIN boundary_zones
             THEN Goto(r, "update", [rq[r].loc EXCEPT
                                       !.zone_name = boundary_zones[in.zone_id].zone_name])
             ELSE Goto(r, "update", rq[r].loc)
    /\ LivestockFrame
    /\ UNCHANGED <<auto_id, livestockStores>>

\* what update(updateData) makes of a document: every field the body carries
Merge(l, in, zone_name) ==
    [id |-> l.id,
     farm_id |-> IF in.farm_id = Undefined THEN l.farm_id ELSE in.farm_id,
     zone_id |-> IF in.zone_id = Undefined THEN l.zone_id ELSE in.zone_id,
     zone_name |-> IF zone_name = Undefined THEN l.zone_name ELSE zone_name,
     identification_tag |-> IF in.identification_tag = Undefined
                            THEN l.identification_tag ELSE in.identification_tag,
     health_status |-> IF in.health_status = Undefined THEN l.health_status
                                                       ELSE in.health_status,
     weight_kg |-> IF in.weight_kg = Absent THEN l.weight_kg ELSE in.weight_kg]

\* livestock.doc(livestockId).update(updateData): throws when the document is
\* gone; then 200
PutUpdate(r) ==
    /\ At(r, "put", "update")
    /\ LET in == rq[r].in IN
       \/ /\ CanFail /\ Fail
          /\ Respond500(r)
          /\ UNCHANGED livestock
       \/ /\ ~\E l \in livestock : l.id = in.livestockId
          /\ Respond500(r)
          /\ UNCHANGED <<livestock, faults>>
       \/ /\ \E l \in livestock :
                /\ l.id = in.livestockId
                /\ livestock' = (livestock \ {l})
                                \cup { Merge(l, in, rq[r].loc.zone_name) }
          /\ Respond(r, 200, [livestock_id |-> in.livestockId], "none")
          /\ UNCHANGED faults
    /\ LivestockFrame
    /\ UNCHANGED <<auto_id, boundary_zones, farms>>

Put(r) ==
    \/ PutArrive(r)
    \/ PutHandler(r)
    \/ PutGetLivestock(r)
    \/ PutDecOld(r)
    \/ PutIncNew(r)
    \/ PutGetNewZone(r)
    \/ PutUpdate(r)

\* --------------------------------------------- DELETE /livestock/:livestockId
DeleteInputs == { [livestockId |-> id] : id \in {1, 2, GhostRow} }

DeleteArrive(r) ==
    /\ \E in \in DeleteInputs : Arrive(r, "delete", in)
    /\ LivestockFrame
    /\ UNCHANGED <<faults, auto_id, livestockStores>>

\* livestock.doc(livestockId).get(); 404 when it does not exist
DeleteHandler(r) ==
    /\ At(r, "delete", "handler")
    /\ LET in == rq[r].in IN
       \/ /\ CanFail /\ Fail
          /\ Respond500(r)
       \/ /\ UNCHANGED faults
          /\ IF \E l \in livestock : l.id = in.livestockId
             THEN Goto(r, "delete",
                       [livestockData |-> CHOOSE l \in livestock : l.id = in.livestockId])
             ELSE Respond(r, 404, <<>>, "none")
    /\ LivestockFrame
    /\ UNCHANGED <<auto_id, livestockStores>>

\* livestock.doc(livestockId).delete(): succeeds whether or not the document is
\* still there
DeleteRow(r) ==
    /\ At(r, "delete", "delete")
    /\ LET in == rq[r].in IN
       \/ /\ CanFail /\ Fail
          /\ Respond500(r)
          /\ UNCHANGED livestock
       \/ /\ livestock' = { l \in livestock : l.id # in.livestockId }
          /\ Goto(r, "dec_zone", rq[r].loc)
          /\ UNCHANGED faults
    /\ LivestockFrame
    /\ UNCHANGED <<auto_id, boundary_zones, farms>>

\* boundary_zones.doc(livestockData.zone_id).update({...: increment(-1)})
DeleteDecZone(r) ==
    /\ At(r, "delete", "dec_zone")
    /\ LET l == rq[r].loc.livestockData IN
       \/ /\ CanFail /\ Fail
          /\ Respond500(r)
          /\ UNCHANGED boundary_zones
       \/ /\ l.zone_id \notin DOMAIN boundary_zones
          /\ Respond500(r)
          /\ UNCHANGED <<boundary_zones, faults>>
       \/ /\ l.zone_id \in DOMAIN boundary_zones
          /\ boundary_zones' =
                Increment(boundary_zones, l.zone_id, "current_livestock_count", 0 - 1)
          /\ Goto(r, "dec_farm", rq[r].loc)
          /\ UNCHANGED faults
    /\ LivestockFrame
    /\ UNCHANGED <<auto_id, livestock, farms>>

\* farms.doc(livestockData.farm_id).update({livestock_count: increment(-1)}),
\* then 200
DeleteDecFarm(r) ==
    /\ At(r, "delete", "dec_farm")
    /\ LET l == rq[r].loc.livestockData IN
       \/ /\ CanFail /\ Fail
          /\ Respond500(r)
          /\ UNCHANGED farms
       \/ /\ l.farm_id \notin DOMAIN farms
          /\ Respond500(r)
          /\ UNCHANGED <<farms, faults>>
       \/ /\ l.farm_id \in DOMAIN farms
          /\ farms' = Increment(farms, l.farm_id, "livestock_count", 0 - 1)
          /\ Respond(r, 200, [livestock_id |-> rq[r].in.livestockId,
                              identification_tag |-> l.identification_tag], "none")
          /\ UNCHANGED faults
    /\ LivestockFrame
    /\ UNCHANGED <<auto_id, livestock, boundary_zones>>

Delete(r) ==
    \/ DeleteArrive(r)
    \/ DeleteHandler(r)
    \/ DeleteRow(r)
    \/ DeleteDecZone(r)
    \/ DeleteDecFarm(r)

NextLivestock == \E r \in Req : Create(r) \/ Put(r) \/ Delete(r)

\* the livestock routes do not depend on the revision of the sensor routes
InitLivestock == Init /\ variant = "routes"

LivestockSpec == InitLivestock /\ [][NextLivestock]_vars

\* ============================================ routes/alert.routes.js
AlertFrame == UNCHANGED <<variant, sensorStores, livestockStores, farmStores>>

GhostAlert == 98       \* an id no Alerts document has

\* the `alert` field of a body: JSON true, JSON false, or a string that is no
\* boolean
AlertValues == {"true", "false", "maybe"}
\* express-validator isBoolean()
IsBoolean(a) == a \in {"true", "false"}
\* `alert ? x : y`
Truthy(a) == a # "false"

PostAlertBody(a, d, dev, k) ==
    [alert |-> a, distance |-> d, deviceId |-> dev, api_key |-> k]

\* the validator chain of POST /alerts
PostAlertValid(in) ==
    /\ IsBoolean(in.alert)
    /\ in.distance >= 0
    /\ NotEmpty(in.deviceId)

\* request bodies of POST /alerts; api_key is what the request carries as
\* x-api-key header or api_key field ("": none)
PostAlertInputs ==
    { PostAlertBody(a, 10, dev, k) : a \in {"true", "false"},
                                     dev \in {"d1", GhostDevice},
                                     k \in {IOT_API_KEY, ""} }
    \cup { PostAlertBody("true", 10, "d1", "wrong"),
           PostAlertBody("maybe", 10, "d1", IOT_API_KEY),
           PostAlertBody("true", 0 - 1, "d1", IOT_API_KEY),
           PostAlertBody("true", 10, "", IOT_API_KEY) }

\* ---------------------------------------------------------- POST /alerts
PostAlertArrive(r) ==
    /\ \E in \in PostAlertInputs : Arrive(r, "post_alert", in)
    /\ AlertFrame
    /\ UNCHANGED <<now, faults, auto_id, alertStores>>

\* validationResult(req); the route has no API-key check
PostAlertHandler(r) ==
    /\ At(r, "post_alert", "handler")
    /\ IF ~PostAlertValid(rq[r].in) THEN Respond(r, 400, <<>>, "none")
                                  ELSE Goto(r, "add", <<>>)
    /\ AlertFrame
    /\ UNCHANGED <<now, faults, auto_id, alertStores>>

\* alertData
AlertDoc(id, in, t) ==
    [id |-> id, alert |-> in.alert, distance |-> in.distance,
     deviceId |-> in.deviceId, created_at |-> t,
     status |-> IF Truthy(in.alert) THEN "active" ELSE "normal",
     resolved |-> FALSE]

\* collection('Alerts').add(alertData)
PostAlertAdd(r) ==
    /\ At(r, "post_alert", "add")
    /\ \/ /\ CanFail /\ Fail
          /\ Respond500(r)
          /\ UNCHANGED <<Alerts, auto_id>>
       \/ /\ Alerts' = Alerts \cup { AlertDoc(auto_id + 1, rq[r].in, now) }
          /\ auto_id' = auto_id + 1
          /\ Goto(r, "update_device", [alertRef |-> auto_id + 1])
          /\ UNCHANGED faults
    /\ AlertFrame
    /\ UNCHANGED <<now, Sensor_Units>>

\* Sensor_Units.doc(deviceId).update({last_seen, alerts_count: increment(alert ? 1
\* : 0)}): throws when the document does not exist; then 201
PostAlertUpdateDevice(r) ==
    /\ At(r, "post_alert", "update_device")
    /\ LET in == rq[r].in IN
       \/ /\ CanFail /\ Fail
          /\ Respond500(r)
          /\ UNCHANGED Sensor_Units
       \/ /\ in.deviceId \notin DOMAIN Sensor_Units
          /\ Respond500(r)
          /\ UNCHANGED <<Sensor_Units, faults>>
       \/ /\ in.deviceId \in DOMAIN Sensor_Units
          /\ Sensor_Units' =
                [Sensor_Units EXCEPT
                    ![in.deviceId] =
                        [last_seen |-> now,
                         alerts_count |-> @.alerts_count +
                                          (IF Truthy(in.alert) THEN 1 ELSE 0)]]
          /\ Respond(r, 201, [alert_id |-> rq[r].loc.alertRef, alert |-> in.alert,
                              deviceId |-> in.deviceId], "none")
          /\ UNCHANGED faults
    /\ AlertFrame
    /\ UNCHANGED <<now, auto_id, Alerts>>

PostAlert(r) ==
    \/ PostAlertArrive(r)
    \/ PostAlertHandler(r)
    \/ PostAlertAdd(r)
    \/ PostAlertUpdateDevice(r)

\* ids of the documents of Alerts
AlertIds == { a.id : a \in Alerts }

\* the path parameter of PUT /:alertId/resolve and DELETE /:alertId: the ids add()
\* hands out first, and an id no document has
AlertIdInputs == { [alertId |-> id] : id \in {2, 3, GhostAlert} }

\* ------------------------------------------- PUT /alerts/:alertId/resolve
ResolveArrive(r) ==
    /\ \E in \in AlertIdInputs : Arrive(r, "resolve", in)
    /\ AlertFrame
    /\ UNCHANGED <<now, faults, auto_id, alertStores>>

ResolvedToggled(a) ==
    [a EXCEPT !.resolved = ~@, !.status = IF a.resolved THEN "active" ELSE "resolved"]

\* the document after update({resolved: true, status: 'resolved', resolved_at})
Resolved(a) == [a EXCEPT !.resolved = TRUE, !.status = "resolved"]

\* Alerts.doc(alertId).update({resolved: true, status: 'resolved', resolved_at}):
\* throws when the document does not exist (the catch block answers 500); then 200
ResolveHandler(r) ==
    /\ At(r, "resolve", "handler")
    /\ LET in == rq[r].in IN
       \/ /\ CanFail /\ Fail
          /\ Respond500(r)
          /\ UNCHANGED Alerts
       \/ /\ in.alertId \notin AlertIds
          /\ Respond500(r)
          /\ UNCHANGED <<Alerts, faults>>
       \/ /\ in.alertId \in AlertIds
          /\ Alerts' = { IF a.id = in.alertId THEN Resolved(a) ELSE a : a \in Alerts }
          /\ Respond(r, 200, <<>>, "none")
          /\ UNCHANGED faults
    /\ AlertFrame
    /\ UNCHANGED <<now, auto_id, Sensor_Units>>

Resolve(r) == ResolveArrive(r) \/ ResolveHandler(r)

\* ------------------------------------------------ DELETE /alerts/:alertId
DeleteAlertArrive(r) ==
    /\ \E in \in AlertIdInputs : Arrive(r, "delete_alert", in)
    /\ AlertFrame
    /\ UNCHANGED <<now, faults, auto_id, alertStores>>

\* Alerts.doc(alertId).delete(): succeeds whether or not the document exists; then
\* 200.  No counter of the device is touched
DeleteAlertHandler(r) ==
    /\ At(r, "delete_alert", "handler")
    /\ \/ /\ CanFail /\ Fail
          /\ Respond500(r)
          /\ UNCHANGED Alerts
       \/ /\ Alerts' = { a \in Alerts : a.id # rq[r].in.alertId }
          /\ Respond(r, 200, <<>>, "none")
          /\ UNCHANGED faults
    /\ AlertFrame
    /\ UNCHANGED <<now, auto_id, Sensor_Units>>

DeleteAlert(r) == DeleteAlertArrive(r) \/ DeleteAlertHandler(r)

\* the clock, for the alert routes
NextAlert == Tick \/ \E r \in Req : PostAlert(r) \/ Resolve(r) \/ DeleteAlert(r)

InitAlert == Init /\ variant = "routes"

AlertSpec == InitAlert /\ [][NextAlert]_vars

\* the alert routes started with one status record in Alerts, as a POST /alerts with
\* alert: false leaves it (the device's alerts_count stays 0)
StoredAlert == AlertDoc(2, PostAlertBody("false", 10, "d1", ""), 0)

InitResolve ==
    /\ InitRest
    /\ variant = "routes"
    /\ now = 0
    /\ auto_id = 2
    /\ Alerts = { StoredAlert }

ResolveSpec == InitResolve /\ [][NextAlert]_vars

\* ============================ routes/auth.routes.js (and its part_005 revision)
\* `variant` also selects the revision of the auth routes: "routes" is
\* routes/auth.routes.js (Firebase custom token, collection 'Farmers'), the other
\* one is part_005 (JWT, collection 'farmers')
AuthFrame == UNCHANGED <<variant, sensorStores, livestockStores, alertStores, FarmDocs>>

\* Firebase Auth: the accounts, by email.  c@x.io has an account and no Farmers
\* document; b@x.io has a Farmers document and no account
Accounts ==
    [e \in {"a@x.io", "c@x.io"} |->
        IF e = "a@x.io" THEN [uid |-> "u1", password |-> "pw1"]
                        ELSE [uid |-> "u3", password |-> "pw3"]]

\* express-validator isEmail()
IsEmail(e) == e \in {"a@x.io", "b@x.io", "c@x.io"}

LoginBody(e, p) == [email |-> e, password |-> p]

\* the validator chain of POST /login (the emails below are in the form
\* normalizeEmail() leaves alone)
LoginValid(in) == IsEmail(in.email) /\ NotEmpty(in.password)

LoginInputs ==
    { LoginBody(e, p) : e \in {"a@x.io", "b@x.io", "c@x.io"}, p \in {"pw1", "wrong"} }
    \cup { LoginBody("bad", "pw1"), LoginBody("a@x.io", "") }

LoginArrive(r) ==
    /\ \E in \in LoginInputs : Arrive(r, "login", in)
    /\ AuthFrame
    /\ UNCHANGED <<now, faults, auto_id, Farmers>>

\* validationResult(req)
LoginHandler(r) ==
    /\ At(r, "login", "handler")
    /\ IF ~LoginValid(rq[r].in) THEN Respond(r, 400, <<>>, "none")
       ELSE IF variant = "routes" THEN Goto(r, "get_user", <<>>)
       ELSE Goto(r, "query_farmer", <<>>)
    /\ AuthFrame
    /\ UNCHANGED <<now, faults, auto_id, Farmers>>

\* part_005: farmers.where('email', '==', email).limit(1).get(); 401 when empty
LoginQueryFarmer(r) ==
    /\ At(r, "login", "query_farmer")
    /\ LET in == rq[r].in
           found == { u \in DOMAIN Farmers : Farmers[u].email = in.email }
       IN
       \/ /\ CanFail /\ Fail
          /\ Respond500(r)
       \/ /\ UNCHANGED faults
          /\ IF found = {}
             THEN Respond(r, 401, <<>>, "none")
             ELSE Goto(r, "get_user", [farmerDoc |-> CHOOSE u \in found : TRUE])
    /\ AuthFrame
    /\ UNCHANGED <<now, auto_id, Farmers>>

\* getUserByEmail(email): whatever it throws (no such account, or the service
\* failed) is answered 401.  The password is not looked at, here or later
LoginGetUser(r) ==
    /\ At(r, "login", "get_user")
    /\ LET in == rq[r].in IN
       \/ /\ CanFail /\ Fail
          /\ Respond(r, 401, <<>>, "none")
       \/ /\ UNCHANGED faults
          /\ IF in.email \notin DOMAIN Accounts
             THEN Respond(r, 401, <<>>, "none")
             ELSE IF variant = "routes"
             THEN Goto(r, "create_token", [uid |-> Accounts[in.email].uid])
             ELSE Goto(r, "update_farmer", [uid |-> rq[r].loc.farmerDoc])
    /\ AuthFrame
    /\ UNCHANGED <<now, auto_id, Farmers>>

\* routes: admin.auth().createCustomToken(user.uid)
LoginCreateToken(r) ==
    /\ At(r, "login", "create_token")
    /\ \/ /\ CanFail /\ Fail
          /\ Respond500(r)
       \/ /\ UNCHANGED faults
          /\ Goto(r, "update_farmer", rq[r].loc)
    /\ AuthFrame
    /\ UNCHANGED <<now, auto_id, Farmers>>

\* what a failed update of the farmer document is answered with: routes has it in
\* the outer try (500), part_005 inside the try whose catch answers 401
LoginUpdateFailed(v, r) ==
    IF v = "routes" THEN Respond500(r) ELSE Respond(r, 401, <<>>, "none")

\* Farmers.doc(uid).update({last_login}): throws when the document does not
\* exist; then 200 with the token (custom_token, or generateToken(farmerDoc.id,
\* email))
LoginUpdateFarmer(r) ==
    /\ At(r, "login", "update_farmer")
    /\ LET uid == rq[r].loc.uid IN
       \/ /\ CanFail /\ Fail
          /\ LoginUpdateFailed(variant, r)
          /\ UNCHANGED Farmers
       \/ /\ uid \notin DOMAIN Farmers
          /\ LoginUpdateFailed(variant, r)
          /\ UNCHANGED <<Farmers, faults>>
       \/ /\ uid \in DOMAIN Farmers
          /\ Farmers' = [Farmers EXCEPT ![uid].last_login = now]
          /\ Respond(r, 200, [token |-> uid], "none")
          /\ UNCHANGED faults
    /\ AuthFrame
    /\ UNCHANGED <<now, auto_id>>

Login(r) ==
    \/ LoginArrive(r)
    \/ LoginHandler(r)
    \/ LoginQueryFarmer(r)
    \/ LoginGetUser(r)
    \/ LoginCreateToken(r)
    \/ LoginUpdateFarmer(r)

NextAuth == Tick \/ \E r \in Req : Login(r)

AuthSpec == Init /\ [][NextAuth]_vars

\* ======================================== routes/analytics.routes.js
AnalyticsFrame ==
    UNCHANGED <<variant, auto_id, sensorStores, livestockStores, otherStores>>

HourMs == 3600000
\* Date.prototype.getHours() and getDay() of a timestamp (server clock in UTC;
\* 1 January 1970 was a Thursday)
Hour(t) == (t \div HourMs) % 24
DayOfWeek(t) == ((t \div DayMs) + 4) % 7

\* Alerts documents as POST /alerts has written them: an alert of d1, a status
\* report (alert false, distance 0) of d1 an hour later, and a resolved alert of
\* a device without a Sensor_Units document a day later
SampleAlert1 == AlertDoc(2, PostAlertBody("true", 10, "d1", ""), 0)
SampleAlert2 == AlertDoc(3, PostAlertBody("false", 0, "d1", ""), HourMs)
SampleAlert3 ==
    [AlertDoc(4, PostAlertBody("true", 55, GhostDevice, ""), DayMs)
        EXCEPT !.resolved = TRUE, !.status = "resolved"]

InitAnalytics ==
    /\ InitRest
    /\ variant = "routes"
    /\ now = DayMs
    /\ auto_id = 4
    /\ Alerts \in { {}, {SampleAlert1}, {SampleAlert1, SampleAlert2, SampleAlert3} }

\* the instants at which the clock is looked at in the runs of these routes
AnalyticsInstants == {DayMs + HourMs, 7 * DayMs, 7 * DayMs + 1, 14 * DayMs + 1}

\* new Date() moves on, to a later instant
ElapseDays ==
    /\ \E t \in AnalyticsInstants : t > now /\ now' = t
    /\ UNCHANGED <<variant, faults, auto_id, sensorStores, livestockStores,
                   otherStores, rq>>

\* `if (deviceId) query = query.where('deviceId', '==', deviceId)`
OfDevice(S, deviceId) ==
    IF deviceId = "" THEN S ELSE { a \in S : a.deviceId = deviceId }

\* ------------------------------------------------ GET /analytics/heatmap
DefaultWeeks == 4
\* `weeks = 4` in the destructuring of req.query
WeeksOf(weeks) == IF weeks = Absent THEN DefaultWeeks ELSE weeks
\* weeksAgo.setDate(weeksAgo.getDate() - parseInt(weeks) * 7)
WeeksAgo(t, weeks) == t - WeeksOf(weeks) * 7 * DayMs

\* req.query: deviceId ("" when absent) and weeks (given: the milliseconds of
\* more than three weeks are beyond the 32-bit integers of the checker)
HeatmapInputs ==
    { [deviceId |-> d, weeks |-> w] : d \in {"", "d1"}, w \in {1, 2} }

HeatmapArrive(r) ==
    /\ \E in \in HeatmapInputs : Arrive(r, "heatmap", in)
    /\ AnalyticsFrame
    /\ UNCHANGED <<now, faults>>

\* Alerts.where('created_at', '>=', weeksAgo)[.where('deviceId', ...)].get()
HeatmapHandler(r) ==
    /\ At(r, "heatmap", "handler")
    /\ LET in == rq[r].in IN
       \/ /\ CanFail /\ Fail
          /\ Respond500(r)
       \/ /\ UNCHANGED faults
          /\ Goto(r, "respond",
                  [snapshot |->
                      OfDevice({ a \in Alerts : a.created_at >= WeeksAgo(now, in.weeks) },
                               in.deviceId)])
    /\ AnalyticsFrame
    /\ UNCHANGED now

HeatmapOfAlertsOnly(snapshot) ==
    [d \in 0..6 |-> [h \in 0..23 |->
        Cardinality({ a \in snapshot : /\ a.alert = "true"
                                       /\ DayOfWeek(a.created_at) = d
                                       /\ Hour(a.created_at) = h })]]

\* the 7 x 24 matrix of zeros after `heatmap[dayOfWeek][hour]++` for every
\* document of the snapshot
HeatmapOf(snapshot) ==
    [d \in 0..6 |-> [h \in 0..23 |->
        Cardinality({ a \in snapshot : /\ DayOfWeek(a.created_at) = d
                                       /\ Hour(a.created_at) = h })]]

HeatmapRespond(r) ==
    /\ At(r, "heatmap", "respond")
    /\ Respond(r, 200, [weeks |-> WeeksOf(rq[r].in.weeks),
                        heatmap |-> HeatmapOf(rq[r].loc.snapshot)], "none")
    /\ AnalyticsFrame
    /\ UNCHANGED <<now, faults>>

Heatmap(r) == HeatmapArrive(r) \/ HeatmapHandler(r) \/ HeatmapRespond(r)

NextHeatmap == ElapseDays \/ \E r \in Req : Heatmap(r)

HeatmapSpec == InitAnalytics /\ [][NextHeatmap]_vars

\* ---------------------------------------------- GET /analytics/dashboard
RECURSIVE TotalDistance(_)
\* `totalDistance += data.distance || 0` over the snapshot
TotalDistance(S) ==
    IF S = {} THEN 0
    ELSE LET a == CHOOSE x \in S : TRUE
         IN  a.distance + TotalDistance(S \ {a})

\* `data.alert && !data.resolved`
ActiveAlerts(S) == { a \in S : Truthy(a.alert) /\ ~a.resolved }

\* Math.round(x * 100) of the quotient a / b, for a >= 0 and b > 0
RoundedHundredths(a, b) == (2 * 100 * a + b) \div (2 * b)

\* `totalAlerts > 0 ? totalDistance / totalAlerts : 0`, then Math.round(avgDistance
\* * 100) / 100: the value in hundredths
AvgDistance(total, n) == IF n > 0 THEN RoundedHundredths(total, n) ELSE 0

\* the start of the range of a timeRange: 'today' is midnight, 'week' seven days
\* back
StartDate(t, timeRange) ==
    IF timeRange = "today" THEN t - (t % DayMs) ELSE t - 7 * DayMs

\* the hours the alert rate is taken over
RateHours(timeRange) == IF timeRange = "today" THEN 24 ELSE 168

DashboardInputs ==
    { [deviceId |-> d, timeRange |-> tr] : d \in {"", "d1"}, tr \in {"today", "week"} }

DashboardArrive(r) ==
    /\ \E in \in DashboardInputs : Arrive(r, "dashboard", in)
    /\ AnalyticsFrame
    /\ UNCHANGED <<now, faults>>

\* Alerts.where('created_at', '>=', startDate)[.where('deviceId', ...)].get()
DashboardHandler(r) ==
    /\ At(r, "dashboard", "handler")
    /\ LET in == rq[r].in IN
       \/ /\ CanFail /\ Fail
          /\ Respond500(r)
       \/ /\ UNCHANGED faults
          /\ Goto(r, "respond",
                  [snapshot |->
                      OfDevice({ a \in Alerts :
                                   a.created_at >= StartDate(now, in.timeRange) },
                               in.deviceId)])
    /\ AnalyticsFrame
    /\ UNCHANGED now

\* the statistics over the snapshot; alertRate is the quotient of its two
\* components
DashboardRespond(r) ==
    /\ At(r, "dashboard", "respond")
    /\ LET S == rq[r].loc.snapshot
           totalAlerts == Cardinality(S)
       IN  Respond(r, 200,
                   [timeRange |-> rq[r].in.timeRange,
                    totalAlerts |-> totalAlerts,
                    activeAlerts |-> Cardinality(ActiveAlerts(S)),
                    totalDevices |-> Cardinality({ a.deviceId : a \in S }),
                    avgDistance |-> AvgDistance(TotalDistance(S), totalAlerts),
                    alertRate |-> <<totalAlerts, RateHours(rq[r].in.timeRange)>>],
                   "none")
    /\ AnalyticsFrame
    /\ UNCHANGED <<now, faults>>

Dashboard(r) == DashboardArrive(r) \/ DashboardHandler(r) \/ DashboardRespond(r)

\* ------------------------------------- GET /analytics/devices/:deviceId
\* `let minDistance = Infinity`
Infinity == 1000000000

\* the smallest and the largest distance of the snapshot, from Infinity and 0
Smallest(S) ==
    IF S = {} THEN Infinity
    ELSE CHOOSE d \in { a.distance : a \in S } : \A a \in S : d <= a.distance
Largest(S) ==
    IF S = {} THEN 0
    ELSE CHOOSE d \in { a.distance : a \in S } : \A a \in S : d >= a.distance

MinDistanceUnguarded(S) == Smallest(S)

\* `minDistance === Infinity ? 0 : minDistance`
MinDistance(S) == IF Smallest(S) = Infinity THEN 0 ELSE Smallest(S)

\* req.params.deviceId and req.query.startDate / endDate (Absent: not given)
DeviceInputs ==
    { [deviceId |-> d, startDate |-> Absent, endDate |-> Absent] :
        d \in {"d1", GhostDevice, "d7"} }
    \cup { [deviceId |-> "d1", startDate |-> HourMs, endDate |-> Absent],
           [deviceId |-> "d1", startDate |-> Absent, endDate |-> 0],
           [deviceId |-> "d1", startDate |-> 1, endDate |-> HourMs - 1] }

DeviceArrive(r) ==
    /\ \E in \in DeviceInputs : Arrive(r, "device", in)
    /\ AnalyticsFrame
    /\ UNCHANGED <<now, faults>>

\* Alerts.where('deviceId', '==', deviceId)[.where('created_at', '>=', startDate)]
\* [.where('created_at', '<=', endDate)].get()
DeviceHandler(r) ==
    /\ At(r, "device", "handler")
    /\ LET in == rq[r].in IN
       \/ /\ CanFail /\ Fail
          /\ Respond500(r)
       \/ /\ UNCHANGED faults
          /\ Goto(r, "respond",
                  [snapshot |->
                      { a \in Alerts :
                          /\ a.deviceId = in.deviceId
                          /\ in.startDate = Absent \/ a.created_at >= in.startDate
                          /\ in.endDate = Absent \/ a.created_at <= in.endDate }])
    /\ AnalyticsFrame
    /\ UNCHANGED now

DeviceRespond(r) ==
    /\ At(r, "device", "respond")
    /\ LET S == rq[r].loc.snapshot
           totalAlerts == Cardinality(S)
       IN  Respond(r, 200,
                   [deviceId |-> rq[r].in.deviceId,
                    totalAlerts |-> totalAlerts,
                    activeAlerts |-> Cardinality(ActiveAlerts(S)),
                    avgDistance |-> AvgDistance(TotalDistance(S), totalAlerts),
                    minDistance |-> MinDistance(S),
                    maxDistance |-> Largest(S)],
                   "none")
    /\ AnalyticsFrame
    /\ UNCHANGED <<now, faults>>

Device(r) == DeviceArrive(r) \/ DeviceHandler(r) \/ DeviceRespond(r)

NextAnalytics == ElapseDays \/ \E r \in Req : Dashboard(r) \/ Device(r)

AnalyticsSpec == InitAnalytics /\ [][NextAnalytics]_vars

\* ================================================ routes/farm.routes.js
\* every request below has passed verifyToken: req.user.userId is `user`
FarmFrame == UNCHANGED <<variant, now, sensorStores, livestockStores, alertStores>>

GhostFarmId == 97      \* an id no Farms document has

FarmBody(user, farm_name, total_area) ==
    [user |-> user, farm_name |-> farm_name, total_area |-> total_area]

\* the validator chain of POST /farms (the location of every body below is
\* well-formed)
FarmValid(in) == NotEmpty(in.farm_name) /\ in.total_area >= 0

FarmInputs ==
    { FarmBody(u, "n2", 5) : u \in FarmerIds }
    \cup { FarmBody("u1", "", 5), FarmBody("u1", "n2", 0 - 1) }

\* ----------------------------------------------------------- POST /farms
FarmCreateArrive(r) ==
    /\ \E in \in FarmInputs : Arrive(r, "create_farm", in)
    /\ FarmFrame
    /\ UNCHANGED <<faults, auto_id, farmStores>>

\* validationResult(req)
FarmCreateHandler(r) ==
    /\ At(r, "create_farm", "handler")
    /\ IF ~FarmValid(rq[r].in) THEN Respond(r, 400, <<>>, "none")
                             ELSE Goto(r, "get_farmer", <<>>)
    /\ FarmFrame
    /\ UNCHANGED <<faults, auto_id, farmStores>>

\* Farmers.doc(farmer_id).get()
FarmCreateGetFarmer(r) ==
    /\ At(r, "create_farm", "get_farmer")
    /\ \/ /\ CanFail /\ Fail
          /\ Respond500(r)
       \/ /\ UNCHANGED faults
          /\ Goto(r, "add", [farmerExists |-> rq[r].in.user \in DOMAIN Farmers])
    /\ FarmFrame
    /\ UNCHANGED <<auto_id, farmStores>>

\* Farms.add(farmData); without a farmer document the request is answered here
FarmCreateAdd(r) ==
    /\ At(r, "create_farm", "add")
    /\ LET in == rq[r].in IN
       \/ /\ CanFail /\ Fail
          /\ Respond500(r)
          /\ UNCHANGED <<FarmDocs, auto_id>>
       \/ /\ FarmDocs' = FarmDocs \cup { FarmDoc(auto_id + 1, in.user, in.farm_name) }
          /\ auto_id' = auto_id + 1
          /\ IF rq[r].loc.farmerExists
             THEN Goto(r, "inc_farmer", [farmRef |-> auto_id + 1])
             ELSE Respond(r, 201, [farm_id |-> auto_id + 1], "none")
          /\ UNCHANGED faults
    /\ FarmFrame
    /\ UNCHANGED Farmers

\* Farmers.doc(farmer_id).update({farms_count: increment(1)}), then 201
FarmCreateIncFarmer(r) ==
    /\ At(r, "create_farm", "inc_farmer")
    /\ LET in == rq[r].in IN
       \/ /\ CanFail /\ Fail
          /\ Respond500(r)
          /\ UNCHANGED Farmers
       \/ /\ in.user \notin DOMAIN Farmers
          /\ Respond500(r)
          /\ UNCHANGED <<Farmers, faults>>
       \/ /\ in.user \in DOMAIN Farmers
          /\ Farmers' = Increment(Farmers, in.user, "farms_count", 1)
          /\ Respond(r, 201, [farm_id |-> rq[r].loc.farmRef], "none")
          /\ UNCHANGED faults
    /\ FarmFrame
    /\ UNCHANGED <<auto_id, FarmDocs>>

FarmCreate(r) ==
    \/ FarmCreateArrive(r)
    \/ FarmCreateHandler(r)
    \/ FarmCreateGetFarmer(r)
    \/ FarmCreateAdd(r)
    \/ FarmCreateIncFarmer(r)

\* the Farms document with an id
FarmById(id) == CHOOSE f \in FarmDocs : f.id = id
FarmExists(id) == \E f \in FarmDocs : f.id = id

\* Farms.doc(farmId).get() and the ownership check of PUT and DELETE: 404 when
\* the farm does not exist, 403 when it is someone else's
FarmVerifyOwnership(r, next) ==
    LET in == rq[r].in IN
    \/ /\ CanFail /\ Fail
       /\ Respond500(r)
    \/ /\ UNCHANGED faults
       /\ IF ~FarmExists(in.farmId) THEN Respond(r, 404, <<>>, "none")
          ELSE IF FarmById(in.farmId).farmer_id # in.user
          THEN Respond(r, 403, <<>>, "none")
          ELSE Goto(r, next, <<>>)

\* -------------------------------------------------- PUT /farms/:farmId
FarmPutBody(user, farmId, farm_name, farmer_id) ==
    [user |-> user, farmId |-> farmId, farm_name |-> farm_name,
     farmer_id |-> farmer_id]

\* request bodies of PUT: a new name, or a new farmer_id (any field of the body
\* reaches the document: `updateData = { ...req.body }`)
FarmPutInputs ==
    { FarmPutBody(u, id, "n3", Undefined) : u \in FarmerIds, id \in {1, GhostFarmId} }
    \cup { FarmPutBody("u1", 1, Undefined, "u2"),
           FarmPutBody("u2", 2, "n3", Undefined) }

FarmPutArrive(r) ==
    /\ \E in \in FarmPutInputs : Arrive(r, "put_farm", in)
    /\ FarmFrame
    /\ UNCHANGED <<faults, auto_id, farmStores>>

FarmPutHandler(r) ==
    /\ At(r, "put_farm", "handler")
    /\ FarmVerifyOwnership(r, "update")
    /\ FarmFrame
    /\ UNCHANGED <<auto_id, farmStores>>

\* Farms.doc(farmId).update(updateData): throws when the document is gone; then
\* 200
FarmPutUpdate(r) ==
    /\ At(r, "put_farm", "update")
    /\ LET in == rq[r].in IN
       \/ /\ CanFail /\ Fail
          /\ Respond500(r)
          /\ UNCHANGED FarmDocs
       \/ /\ ~FarmExists(in.farmId)
          /\ Respond500(r)
          /\ UNCHANGED <<FarmDocs, faults>>
       \/ /\ FarmExists(in.farmId)
          /\ FarmDocs' =
                { IF f.id = in.farmId
                  THEN [f EXCEPT
                          !.farm_name = IF in.farm_name = Undefined THEN @
                                                                    ELSE in.farm_name,
                          !.farmer_id = IF in.farmer_id = Undefined THEN @
                                                                    ELSE in.farmer_id]
                  ELSE f : f \in FarmDocs }
          /\ Respond(r, 200, [farm_id |-> in.farmId], "none")
          /\ UNCHANGED faults
    /\ FarmFrame
    /\ UNCHANGED <<auto_id, Farmers>>

FarmPut(r) == FarmPutArrive(r) \/ FarmPutHandler(r) \/ FarmPutUpdate(r)

\* ------------------------------------------------ DELETE /farms/:farmId
FarmDeleteInputs ==
    { [user |-> u, farmId |-> id] : u \in FarmerIds, id \in {1, 2, GhostFarmId} }

FarmDeleteArrive(r) ==
    /\ \E in \in FarmDeleteInputs : Arrive(r, "delete_farm", in)
    /\ FarmFrame
    /\ UNCHANGED <<faults, auto_id, farmStores>>

FarmDeleteHandler(r) ==
    /\ At(r, "delete_farm", "handler")
    /\ FarmVerifyOwnership(r, "delete")
    /\ FarmFrame
    /\ UNCHANGED <<auto_id, farmStores>>

\* Farms.doc(farmId).delete(): succeeds whether or not the document is still
\* there
FarmDeleteDoc(r) ==
    /\ At(r, "delete_farm", "delete")
    /\ \/ /\ CanFail /\ Fail
          /\ Respond500(r)
          /\ UNCHANGED FarmDocs
       \/ /\ FarmDocs' = { f \in FarmDocs : f.id # rq[r].in.farmId }
          /\ Goto(r, "get_farmer", <<>>)
          /\ UNCHANGED faults
    /\ FarmFrame
    /\ UNCHANGED <<auto_id, Farmers>>

\* Farmers.doc(farmer_id).get(); without a farmer document the request is
\* answered here
FarmDeleteGetFarmer(r) ==
    /\ At(r, "delete_farm", "get_farmer")
    /\ \/ /\ CanFail /\ Fail
          /\ Respond500(r)
       \/ /\ UNCHANGED faults
          /\ IF rq[r].in.user \in DOMAIN Farmers
             THEN Goto(r, "dec_farmer", <<>>)
             ELSE Respond(r, 200, <<>>, "none")
    /\ FarmFrame
    /\ UNCHANGED <<auto_id, farmStores>>

\* Farmers.doc(farmer_id).update({farms_count: increment(-1)}), then 200
FarmDeleteDecFarmer(r) ==
    /\ At(r, "delete_farm", "dec_farmer")
    /\ LET in == rq[r].in IN
       \/ /\ CanFail /\ Fail
          /\ Respond500(r)
          /\ UNCHANGED Farmers
       \/ /\ in.user \notin DOMAIN Farmers
          /\ Respond500(r)
          /\ UNCHANGED <<Farmers, faults>>
       \/ /\ in.user \in DOMAIN Farmers
          /\ Farmers' = Increment(Farmers, in.user, "farms_count", 0 - 1)
          /\ Respond(r, 200, <<>>, "none")
          /\ UNCHANGED faults
    /\ FarmFrame
    /\ UNCHANGED <<auto_id, FarmDocs>>

FarmDelete(r) ==
    \/ FarmDeleteArrive(r)
    \/ FarmDeleteHandler(r)
    \/ FarmDeleteDoc(r)
    \/ FarmDeleteGetFarmer(r)
    \/ FarmDeleteDecFarmer(r)

NextFarm == \E r \in Req : FarmCreate(r) \/ FarmPut(r) \/ FarmDelete(r)

InitFarm == Init /\ variant = "routes"

FarmSpec == InitFarm /\ [][NextFarm]_vars

\* ================== POST /sensors/register and GET /sensors (sensor.routes.js)
RegisterBody(device_id, zone_id, farm_id) ==
    [device_id |-> device_id, zone_id |-> zone_id, farm_id |-> farm_id]

\* the validator chain of POST /register (the other fields are well-formed)
RegisterValid(in) ==
    NotEmpty(in.device_id) /\ NotEmpty(in.zone_id) /\ NotEmpty(in.farm_id)

RegisterInputs ==
    { RegisterBody("dev", "Z1", "F1"), RegisterBody("dev", GhostZone, "F1"),
      RegisterBody("dev", "Z1", GhostFarm), RegisterBody("", "Z1", "F1") }

RegisterArrive(r) ==
    /\ \E in \in RegisterInputs : Arrive(r, "register", in)
    /\ SensorFrame
    /\ UNCHANGED <<faults, auto_id, sensorStores>>

\* validationResult(req); part_003 then looks the zone and the farm up
RegisterHandler(r) ==
    /\ At(r, "register", "handler")
    /\ IF ~RegisterValid(rq[r].in) THEN Respond(r, 400, <<>>, "none")
       ELSE IF variant = "routes" THEN Goto(r, "add", <<>>)
       ELSE Goto(r, "get_zone", <<>>)
    /\ SensorFrame
    /\ UNCHANGED <<faults, auto_id, sensorStores>>

\* part_003: the zone document, then the farm document; 404 when either is missing
RegisterGetZone(r) ==
    /\ At(r, "register", "get_zone")
    /\ \/ /\ CanFail /\ Fail
          /\ Respond500(r)
       \/ /\ UNCHANGED faults
          /\ IF rq[r].in.zone_id \in DOMAIN boundary_zones
             THEN Goto(r, "get_farm", <<>>)
             ELSE Respond(r, 404, <<>>, "none")
    /\ SensorFrame
    /\ UNCHANGED <<auto_id, sensorStores>>

RegisterGetFarm(r) ==
    /\ At(r, "register", "get_farm")
    /\ \/ /\ CanFail /\ Fail
          /\ Respond500(r)
       \/ /\ UNCHANGED faults
          /\ IF rq[r].in.farm_id \in DOMAIN farms
             THEN Goto(r, "add", <<>>)
             ELSE Respond(r, 404, <<>>, "none")
    /\ SensorFrame
    /\ UNCHANGED <<auto_id, sensorStores>>

\* the id add() gives the new document: one no document has yet
NewSensorId ==
    FreshSensors[CHOOSE i \in DOMAIN FreshSensors :
                    /\ FreshSensors[i] \notin DOMAIN sensor_units
                    /\ \A j \in 1..(i - 1) : FreshSensors[j] \in DOMAIN sensor_units]

\* sensorData of POST /register: routes writes boundary_threshold: 50, part_003
\* writes no threshold
RegisteredDoc(v, in) ==
    [SensorDoc(v, IF v = "routes" THEN DefaultThreshold ELSE Absent)
        EXCEPT !.zone_id = in.zone_id, !.farm_id = in.farm_id]

\* sensor_units.add(sensorData)
RegisterAdd(r) ==
    /\ At(r, "register", "add")
    /\ \E i \in DOMAIN FreshSensors : FreshSensors[i] \notin DOMAIN sensor_units
    /\ \/ /\ CanFail /\ Fail
          /\ Respond500(r)
          /\ UNCHANGED sensor_units
       \/ /\ sensor_units' =
                [s \in DOMAIN sensor_units \cup {NewSensorId} |->
                    IF s = NewSensorId THEN RegisteredDoc(variant, rq[r].in)
                                       ELSE sensor_units[s]]
          /\ Goto(r, "set_status", [sensorRef |-> NewSensorId])
          /\ UNCHANGED faults
    /\ SensorFrame
    /\ UNCHANGED <<auto_id, sensor_readings, sensor_status, alerts, notifications>>

\* the node POST /register writes at sensor_status/${sensorRef.id}
InitialStatus(t) ==
    [present |-> TRUE, last_reading |-> 0, last_timestamp |-> t,
     status |-> "inactive", is_online |-> FALSE, battery_level |-> Absent]

\* realtimeDb.ref(`sensor_status/${sensorRef.id}`).set({is_online: false, ...}); 201
RegisterSetStatus(r) ==
    /\ At(r, "register", "set_status")
    /\ \/ /\ CanFail /\ Fail
          /\ Respond500(r)
          /\ UNCHANGED sensor_status
       \/ /\ sensor_status' =
                [sensor_status EXCEPT ![rq[r].loc.sensorRef] = InitialStatus(now)]
          /\ Respond(r, 201, [sensor_id |-> rq[r].loc.sensorRef], "none")
          /\ UNCHANGED faults
    /\ SensorFrame
    /\ UNCHANGED <<auto_id, sensor_units, sensor_readings, alerts, notifications>>

Register(r) ==
    \/ RegisterArrive(r)
    \/ RegisterHandler(r)
    \/ RegisterGetZone(r)
    \/ RegisterGetFarm(r)
    \/ RegisterAdd(r)
    \/ RegisterSetStatus(r)

\* ------------------------------------------------------------ GET /sensors
\* the `status` query parameter (no farm_id or zone_id filter)
ListInputs == { [status |-> st] : st \in {"all", "online", "offline"} }

ListArrive(r) ==
    /\ \E in \in ListInputs : Arrive(r, "list", in)
    /\ SensorFrame
    /\ UNCHANGED <<faults, auto_id, sensorStores>>

\* the documents of a snapshot come in the order of their ids
DocsInOrder(ids) ==
    SelectSeq(<<"s1", "s2">> \o FreshSensors, LAMBDA s : s \in ids)

\* query.get(): snapshot.docs
ListHandler(r) ==
    /\ At(r, "list", "handler")
    /\ \/ /\ CanFail /\ Fail
          /\ Respond500(r)
       \/ /\ Goto(r, "read_status",
                  [docs |-> DocsInOrder(DOMAIN sensor_units), sensors |-> {}])
          /\ UNCHANGED faults
    /\ SensorFrame
    /\ UNCHANGED <<auto_id, sensorStores>>

\* `statusSnapshot.val() || {is_online: false, last_reading: 0, status: 'offline'}`
LiveStatusOrDefault(node) ==
    IF node.present THEN node
    ELSE [present |-> FALSE, last_reading |-> 0, last_timestamp |-> Absent,
          status |-> "offline", is_online |-> FALSE, battery_level |-> Absent]

ListedWhateverStatus(status, liveStatus) == TRUE

\* the two `continue` lines of the loop: is the sensor pushed into `sensors`?
Listed(status, liveStatus) ==
    /\ ~(status = "online" /\ ~liveStatus.is_online)
    /\ ~(status = "offline" /\ liveStatus.is_online)

\* one turn of the loop: the await on the sensor's live status, the filter and the
\* push; after the last document, the 200 response
ListReadStatus(r) ==
    /\ At(r, "list", "read_status")
    /\ LET in == rq[r].in
           loc == rq[r].loc
           id == Head(loc.docs)
           liveStatus == LiveStatusOrDefault(sensor_status[id])
           sensors == IF Listed(in.status, liveStatus)
                      THEN loc.sensors \cup {id} ELSE loc.sensors
       IN
       \/ /\ CanFail /\ Fail
          /\ Respond500(r)
       \/ /\ UNCHANGED faults
          /\ IF Len(loc.docs) > 1
             THEN Goto(r, "read_status", [docs |-> Tail(loc.docs), sensors |-> sensors])
             ELSE Respond(r, 200, [status |-> in.status, sensors |-> sensors], "none")
    /\ SensorFrame
    /\ UNCHANGED <<auto_id, sensorStores>>

List(r) == ListArrive(r) \/ ListHandler(r) \/ ListReadStatus(r)

\* readings, battery updates, registrations and listings together
NextOnline ==
    Tick \/ \E r \in Req : Reading(r) \/ Battery(r) \/ Register(r) \/ List(r)

OnlineSpec == Init /\ [][NextOnline]_vars

\* ================================================================ claims
Done(r) == rq[r].pc = "done"
Quiescent == \A r \in Req : rq[r].pc \in {"idle", "done"}

\* rows of the reading log written by POST /reading (push keys) and by POST /batch
ReadingRows == { x \in sensor_readings : x.key.kind = "push" }
BatchRows == { x \in sensor_readings : x.key.kind = "ms" }
BreachAlerts == { a \in alerts : a.alert_type \in {"boundary_breach", "Boundary Breach"} }

\* the threshold a sensor is configured with (Absent: none)
Configured(s) ==
    IF variant = "routes" THEN sensor_units[s].boundary_threshold
                          ELSE sensor_units[s].max_distance_threshold

\* C2: every reading stored by POST /sensors/reading for a sensor with configured
\* threshold t > 0 (50 when it has none) has status 'alert' exactly when its
\* distance is below t and 'normal' otherwise, and a 200 response reports the
\* stored status
C2_StatusIffBelowThreshold ==
    /\ \A x \in ReadingRows :
          LET c == Configured(x.sensor_id)
              t == IF c = Absent THEN 50 ELSE c
          IN  (c = Absent \/ c > 0) =>
                 /\ x.distance_measured < t => x.status = "alert"
                 /\ x.distance_measured >= t => x.status = "normal"
    /\ \A r \in Req :
          (Done(r) /\ rq[r].kind = "reading" /\ rq[r].code = 200) =>
             \E x \in ReadingRows : /\ x.key = rq[r].out.reading_id
                                    /\ x.status = rq[r].out.status

\* a reading at exactly the threshold stored as 'normal', next to a breach of a
\* sensor with its own threshold
C2_Witness ==
    /\ \E x \in ReadingRows : /\ x.sensor_id = "s1" /\ x.distance_measured = 50
                              /\ x.status = "normal"
    /\ \E x \in ReadingRows : /\ x.sensor_id = "s2" /\ x.distance_measured = 55
                              /\ x.status = "alert"

\* C3: every alert row of a breach reading has severity critical exactly when the
\* measured distance is below 25 and high otherwise, whatever the threshold
C3_SeverityIffBelow25 ==
    \A a \in BreachAlerts :
       /\ a.trigger_distance < 25 => a.security_level \in {"critical", "Critical"}
       /\ a.trigger_distance >= 25 => a.security_level \in {"high", "High"}
       /\ \E x \in ReadingRows : /\ x.sensor_id = a.sensor_id
                                 /\ x.distance_measured = a.trigger_distance
                                 /\ x.status = "alert"

\* a critical alert, and a high one at exactly 25
C3_Witness ==
    /\ \E a \in BreachAlerts : a.trigger_distance = 10
    /\ \E a \in BreachAlerts : a.trigger_distance = 25 /\ a.sensor_id = "s2"

\* POST /reading requests by how far they got with their alert
ReadingDone(r) == Done(r) /\ rq[r].kind = "reading" /\ rq[r].code = 200
Recorded == { r \in Req : ReadingDone(r) /\ rq[r].out.status = "alert"
                                         /\ rq[r].logged = "none" }
Swallowed == { r \in Req : ReadingDone(r) /\ rq[r].logged = "alert_error" }
Notifying == { r \in Req : At(r, "reading", "add_notification") }

SensorOf(r) == rq[r].out.reading_id.sensor

\* C5: breach alerts are never deduplicated: for every sensor, each breach reading
\* whose alert recording went through has an Alert row of its own (distinct ids),
\* however the requests interleave and also when the previous reading of the
\* sensor was a breach; only a recording that failed can be missing
C5_NoDeduplication ==
    /\ \A s \in Sensors :
          LET mine == { a \in BreachAlerts : a.sensor_id = s }
              ids == { a.id : a \in mine }
              recorded == { r \in Recorded : SensorOf(r) = s }
              notifying == { r \in Notifying : rq[r].in.sensor_id = s }
          IN  /\ Cardinality(ids) = Cardinality(mine)
              /\ Cardinality(ids) >= Cardinality(recorded) + Cardinality(notifying)
    /\ (Quiescent /\ faults = 0) =>
          \A s \in Sensors :
             Cardinality({ a \in BreachAlerts : a.sensor_id = s }) =
             Cardinality({ x \in ReadingRows : x.sensor_id = s /\ x.status = "alert" })

\* two breach readings of one sensor with the same distance, the second answered
\* while the first was still in flight: two Alert rows
C5_Witness ==
    /\ \E r \in Recorded : SensorOf(r) = "s1" /\ r = 2
    /\ \E r \in Notifying : rq[r].in.sensor_id = "s1" /\ r = 1
    /\ \E a, b \in BreachAlerts :
          /\ a.sensor_id = "s1" /\ b.sensor_id = "s1" /\ a.id # b.id
          /\ a.trigger_distance = b.trigger_distance

\* the step in which request r's createAlert catches a failed insert
AlertInsertFails(r) ==
    /\ rq[r].kind = "reading"
    /\ rq[r].pc \in {"add_alert", "add_notification"}
    /\ rq'[r] # rq[r]
    /\ faults' = faults + 1

\* C6: when the Alert or the Notification insert of a breach reading fails, the
\* request is answered 200 all the same, and the reading row and the live status
\* written earlier in the request stay as they are
C6_AlertFailureSwallowed ==
    [][\A r \in Req :
          AlertInsertFails(r) =>
             /\ rq'[r].pc = "done"
             /\ rq'[r].code = 200
             /\ rq'[r].out.status = "alert"
             /\ \E x \in sensor_readings' : /\ x.key = rq[r].loc.readingRef
                                            /\ x.distance_measured =
                                                  rq[r].in.distance_measured
             /\ UNCHANGED <<sensor_readings, sensor_status, sensor_units>>]_vars

\* a breach reading answered 200 after its alert recording failed: the reading is
\* in the log and no alert exists
C6_Witness ==
    \E r \in Swallowed :
       /\ rq[r].code = 200
       /\ \E x \in ReadingRows : x.key = rq[r].out.reading_id /\ x.status = "alert"
       /\ sensor_status[SensorOf(r)].is_online
       /\ BreachAlerts = {}

\* C8: POST /sensors/batch derives for every item the status POST /sensors/reading
\* derives for the item's sensor and distance (the sensor's threshold, default 50)
C8_BatchSameStatusAsReading ==
    \A x \in BatchRows :
       x.sensor_id \in DOMAIN sensor_units =>
          x.status = Evaluate(x.distance_measured,
                              ThresholdOf(variant, sensor_units[x.sensor_id]))

\* C9: no reading with a negative distance_measured is ever stored
C9_NoNegativeDistanceStored ==
    \A x \in sensor_readings : x.distance_measured >= 0

\* the validators declared on the route of request r accept its body
DeclaredValid(r) ==
    CASE rq[r].kind = "reading" -> ReadingValid(variant, rq[r].in)
      [] rq[r].kind = "batch" -> BatchValid(rq[r].in)
      [] rq[r].kind = "battery" -> BatteryValid(variant, rq[r].in)
      [] rq[r].kind = "create" -> CreateValid(rq[r].in)
      [] rq[r].kind = "put" -> PutValid(rq[r].in)
      [] OTHER -> TRUE

\* C10: a request that violates a validator declared on its route is answered 400
\* and writes nothing to any store
C10_InvalidRejectedBeforeWrites ==
    [][\A r \in Req :
          (rq[r].pc \notin {"idle", "done"} /\ rq'[r] # rq[r] /\ ~DeclaredValid(r)) =>
             /\ rq'[r].pc = "done"
             /\ rq'[r].code = 400
             /\ UNCHANGED <<sensorStores, livestockStores>>]_vars

\* C1: once no request is in flight, after any sequence of livestock creates,
\* deletes and updates, every farm's livestock_count equals the number of
\* livestock rows whose farm_id is that farm
C1_FarmCountMatchesRows ==
    Quiescent =>
       \A f \in DOMAIN farms :
          farms[f].livestock_count =
             Cardinality({ l \in livestock : l.farm_id = f })

\* C7: successful DELETEs of livestock L (farm F, zone Z), two concurrent ones
\* included, remove the row once and take exactly 1 off F.livestock_count and
\* exactly 1 off Z.current_livestock_count in total
C7_DeleteDecrementsOnce ==
    ( /\ \A r \in Req : rq[r].kind \in {"idle", "delete"}
      /\ \A r \in Req : Done(r) => rq[r].code \in {200, 404}
      /\ Quiescent
      /\ InitialRow \notin livestock )
    => /\ farms[InitialRow.farm_id].livestock_count =
             InitialFarms[InitialRow.farm_id].livestock_count - 1
       /\ boundary_zones[InitialRow.zone_id].current_livestock_count =
             InitialZones[InitialRow.zone_id].current_livestock_count - 1

\* every store a route writes to
allStores == <<sensorStores, livestockStores, otherStores>>

\* the routes devices write through
DeviceWrites == {"reading", "batch", "battery", "post_alert"}

\* C11: a step of a device-originated write (POST /sensors/reading, POST
\* /sensors/batch, PUT /sensors/:sensorId/battery, POST /alerts) whose request
\* does not carry the valid API key changes no store and answers the request 401
C11_NoWriteWithoutApiKey ==
    [][\A r \in Req :
          ( /\ rq[r].kind \in DeviceWrites
            /\ rq[r].pc \notin {"idle", "done"}
            /\ rq'[r] # rq[r]
            /\ rq[r].in.api_key # IOT_API_KEY )
          => /\ rq'[r].pc = "done"
             /\ rq'[r].code = 401
             /\ UNCHANGED allStores]_vars

\* a request at its first store access for a sensor or an alert that does not exist
ReferencesAbsent(r) ==
    \/ At(r, "reading", "get_sensor") /\ rq[r].in.sensor_id \notin DOMAIN sensor_units
    \/ At(r, "battery", "update_sensor") /\ rq[r].in.sensorId \notin DOMAIN sensor_units
    \/ At(r, "resolve", "handler") /\ rq[r].in.alertId \notin AlertIds
    \/ At(r, "delete_alert", "handler") /\ rq[r].in.alertId \notin AlertIds

\* C13: a request that references an absent sensor (POST /sensors/reading, PUT
\* /sensors/:sensorId/battery) or an absent alert (PUT /alerts/:alertId/resolve,
\* DELETE /alerts/:alertId) is answered 404 and changes no store (a step in which
\* the store itself fails aside)
C13_AbsentAnswered404 ==
    [][\A r \in Req :
          (ReferencesAbsent(r) /\ rq'[r] # rq[r] /\ faults' = faults)
          => /\ rq'[r].pc = "done"
             /\ rq'[r].code = 404
             /\ UNCHANGED allStores]_vars

\* C20: once no request is in flight, after any sequence of POST /alerts, PUT
\* /alerts/:id/resolve and DELETE /alerts/:id, every device's alerts_count equals
\* the number of Alerts documents with alert == true whose deviceId is the device
C20_AlertsCountMatchesRecords ==
    Quiescent =>
       \A d \in DOMAIN Sensor_Units :
          Sensor_Units[d].alerts_count =
             Cardinality({ a \in Alerts : a.alert = "true" /\ a.deviceId = d })

\* the submitted password is the password of the account with the submitted email
CorrectCredential(in) ==
    in.email \in DOMAIN Accounts /\ Accounts[in.email].password = in.password

\* C12: the step that answers a POST /auth/login issues a token only when the
\* submitted password is the account's; with the email of an existing account and
\* a wrong password the answer is 401 and carries no token (a step in which a
\* service fails aside)
C12_TokenOnlyForCorrectPassword ==
    [][\A r \in Req :
          (rq[r].kind = "login" /\ rq[r].pc # "done" /\ rq'[r].pc = "done")
          => /\ rq'[r].code = 200 => CorrectCredential(rq[r].in)
             /\ ( /\ rq[r].in.email \in DOMAIN Accounts
                  /\ NotEmpty(rq[r].in.password)
                  /\ ~CorrectCredential(rq[r].in)
                  /\ faults' = faults )
                => rq'[r].code = 401 /\ rq'[r].out = <<>>]_vars

\* C14: no two livestock rows of the same farm share an identification_tag,
\* whatever creates (also concurrent ones with the same tag) and updates have run
C14_TagUniqueWithinFarm ==
    \A l, m \in livestock :
       (l.farm_id = m.farm_id /\ l.identification_tag = m.identification_tag)
          => l.id = m.id

\* C15: the 200 answer of GET /sensors/live/:sensorId carries is_stale = true
\* exactly when the time of the answer minus the last_timestamp it reports is
\* more than 300000 ms; at exactly 300000 ms is_stale is false
C15_StaleIffOlderThan300000 ==
    [][\A r \in Req :
          (At(r, "live", "respond") /\ rq'[r].pc = "done" /\ rq'[r].code = 200)
          => /\ rq'[r].out.is_stale <=> (now - rq'[r].out.last_timestamp > 300000)
             /\ now - rq'[r].out.last_timestamp = 300000 => ~rq'[r].out.is_stale
             /\ rq'[r].out.last_timestamp = rq[r].loc.statusSnapshot.last_timestamp]_vars

\* one sensor asked about at exactly 300000 ms after its last timestamp (not
\* stale) and again one millisecond later (stale)
C15_Witness ==
    /\ now = 300001
    /\ \E r \in Req : /\ Done(r) /\ rq[r].kind = "live" /\ rq[r].code = 200
                      /\ ~rq[r].out.is_stale /\ rq[r].out.age_seconds = 300
    /\ \E r \in Req : /\ Done(r) /\ rq[r].kind = "live" /\ rq[r].code = 200
                      /\ rq[r].out.is_stale /\ rq[r].out.age_seconds = 300

RECURSIVE SumUpTo(_, _)
\* f[0] + ... + f[n]
SumUpTo(f, n) == IF n < 0 THEN 0 ELSE f[n] + SumUpTo(f, n - 1)
\* the sum of all cells of a 7 x 24 matrix
CellSum(m) == SumUpTo([d \in 0..6 |-> SumUpTo(m[d], 23)], 6)

\* the Alerts documents of the last `weeks` weeks, of the device when one is given
InHeatmapRange(in) ==
    { a \in Alerts : /\ a.created_at >= now - in.weeks * 604800000
                     /\ in.deviceId # "" => a.deviceId = in.deviceId }

InStatisticsRange(r) ==
    LET in == rq[r].in IN
    IF rq[r].kind = "dashboard"
    THEN { a \in Alerts :
             /\ a.created_at >= (IF in.timeRange = "today" THEN now - (now % 86400000)
                                                           ELSE now - 604800000)
             /\ in.deviceId # "" => a.deviceId = in.deviceId }
    ELSE { a \in Alerts :
             /\ a.deviceId = in.deviceId
             /\ in.startDate # Absent => a.created_at >= in.startDate
             /\ in.endDate # Absent => a.created_at <= in.endDate }

C18_ZoneCountsSettle ==
    (Quiescent /\ \A r \in Req : rq[r].kind \in {"idle", "put"})
    => \A z \in DOMAIN boundary_zones :
          boundary_zones[z].current_livestock_count =
             Cardinality({ l \in livestock : l.zone_id = z })

\* C19: once no request is in flight, after any sequence of POST /farms, PUT
\* /farms/:id and DELETE /farms/:id, every farmer's farms_count equals the number
\* of Farms documents whose farmer_id is that farmer
C19_FarmsCountMatchesRows ==
    Quiescent =>
       \A u \in DOMAIN Farmers :
          Farmers[u].farms_count =
             Cardinality({ f \in FarmDocs : f.farmer_id = u })

\* unresolved rows of the alerts collection that name farm f
UnresolvedAlertsOf(f) == { a \in alerts : a.farm_id = f /\ ~a.is_resolved }

\* C21: whenever no request is in flight, every farm's active_alerts equals the
\* number of unresolved alert rows whose farm_id is that farm
C21_ActiveAlertsMatchesRows ==
    Quiescent =>
       \A f \in DOMAIN farms :
          farms[f].active_alerts = Cardinality(UnresolvedAlertsOf(f))

\* C22: a step never overwrites or removes a stored reading, and a POST /batch that
\* is answered 200 adds one reading record per item of its readings array
C22_ReadingsAppendOnly ==
    [][ /\ sensor_readings \subseteq sensor_readings'
        /\ \A r \in Req :
              (At(r, "batch", "update") /\ rq'[r].code = 200)
              => Cardinality(sensor_readings') =
                     Cardinality(sensor_readings) + Len(rq[r].in.readings) ]_vars

\* the step of POST /reading that writes the live-status node, when it succeeds
WritesLiveStatus(r) == At(r, "reading", "set_status") /\ rq'[r].pc = "update_sensor"

\* C23: the live-status write of a POST /reading (every reading answered 200 has made
\* it) leaves exactly the submitted distance, the reading's timestamp, the status
\* derived from the sensor's threshold and is_online = true at the sensor's node; no
\* field of the previous node, battery_level included, is kept
C23_LiveStatusReplacedWholesale ==
    [][ \A r \in Req :
           WritesLiveStatus(r)
           => LET in == rq[r].in
                  loc == rq[r].loc
              IN  /\ sensor_status'[in.sensor_id] =
                        [present |-> TRUE,
                         last_reading |-> in.distance_measured,
                         last_timestamp |-> loc.timestamp,
                         status |-> Evaluate(in.distance_measured,
                                             ThresholdOf(variant, loc.sensorData)),
                         is_online |-> TRUE,
                         battery_level |-> Absent]
                  /\ \A s \in DOMAIN sensor_status \ {in.sensor_id} :
                        sensor_status'[s] = sensor_status[s] ]_vars

\* a reading has written the node after the battery endpoint had put a battery_level
\* there (the battery request was answered 200, so it reached the node first)
C23_Witness ==
    \E r, b \in Req :
       /\ At(r, "reading", "update_sensor")
       /\ rq[b].kind = "battery" /\ rq[b].code = 200
       /\ sensor_units[rq[r].in.sensor_id].battery_level # 100
       /\ sensor_status[rq[r].in.sensor_id].battery_level = Absent

\* C24: a resolved alert is still resolved after every step that leaves it in
\* Alerts (resolving it again included), and a document leaves Alerts only in the
\* step of a DELETE /alerts/:alertId that names it
C24_ResolvedStaysResolved ==
    [][ \A a \in Alerts :
           /\ (a.resolved /\ a.id \in AlertIds')
              => \A b \in Alerts' : b.id = a.id => b.resolved
           /\ a.id \notin AlertIds'
              => \E r \in Req : /\ At(r, "delete_alert", "handler")
                                /\ rq[r].in.alertId = a.id
                                /\ rq'[r].code = 200 ]_vars

\* an alert was resolved twice and is resolved
C24_Witness ==
    \E r, q \in Req :
       /\ r # q
       /\ rq[r].kind = "resolve" /\ rq[r].code = 200
       /\ rq[q].kind = "resolve" /\ rq[q].code = 200
       /\ \E a \in Alerts : a.resolved /\ a.status = "resolved"

\* the sensors a GET /sensors has pushed into its list so far
ListedBy(slot) == IF slot.pc = "done" THEN slot.out.sensors ELSE slot.loc.sensors

C26_CountersNeverNegative ==
    /\ \A f \in DOMAIN farms : farms[f].livestock_count >= 0
    /\ \A z \in DOMAIN boundary_zones : boundary_zones[z].current_livestock_count >= 0
    /\ \A u \in DOMAIN Farmers : Farmers[u].farms_count >= 0

\* C27: the live-status write of a reading never lowers the sensor's last_timestamp
C27_LastTimestampNeverDecreases ==
    [][ \A r \in Req :
           WritesLiveStatus(r)
           => sensor_status'[rq[r].in.sensor_id].last_timestamp
                 >= sensor_status[rq[r].in.sensor_id].last_timestamp ]_vars

\* C28: when no request is in flight and no reading has failed half-way (each was
\* answered 200, or refused before its first write), the last_reading of the sensor
\* document equals the last_reading of the live-status node of every sensor that
\* has reported
C28_DurableMatchesLive ==
    (/\ Quiescent
     /\ \A r \in Req : rq[r].kind = "reading" => rq[r].code \in {200, 400, 401, 404})
    => \A s \in DOMAIN sensor_units :
          sensor_status[s].is_online
          => sensor_units[s].last_reading = sensor_status[s].last_reading

\* C29: a livestock request that ran alone from the initial state and was answered
\* with a status other than 200 or 201 has left the livestock rows and the zone and
\* farm counters as they were
C29_RefusedLivestockRequestChangesNothing ==
    \A r \in Req :
       (/\ Done(r)
        /\ rq[r].kind \in {"create", "put", "delete"}
        /\ rq[r].code \notin {200, 201}
        /\ \A q \in Req \ {r} : rq[q].pc = "idle")
       => /\ livestock = { InitialRow }
          /\ boundary_zones = InitialZones
          /\ farms = InitialFarms

\* C30: every livestock row names a farm and a zone that exist
C30_RowsReferToExistingFarmAndZone ==
    \A l \in livestock :
       /\ l.farm_id \in DOMAIN farms
       /\ l.zone_id \in DOMAIN boundary_zones
====
